---- MODULE Spec2Model ----
(***************************************************************************)
(* Model of the 2D rigid-body physics engine of profesor-sim               *)
(* (crates/profesor-sim/src/physics.rs): Vec2, RigidBody, PhysicsWorld.    *)
(*                                                                         *)
(* Numbers.  The program computes in f32.  The model computes in exact     *)
(* rational arithmetic: a number is a record [n, d] in lowest terms with   *)
(* d > 0, so the algebra of the code (signs, order of operations, which    *)
(* operand is divided by which) is kept and only the rounding of f32 is    *)
(* abstracted.  A division by zero yields the non-finite value NaN         *)
(* (d = 0), which every operation propagates and every comparison rejects, *)
(* as in IEEE 754.                                                         *)
(***************************************************************************)
EXTENDS Integers, Sequences, FiniteSets, TLC

\* ------------------------------------------------------------------ f32
Abs(k) == IF k < 0 THEN -k ELSE k

RECURSIVE GCD(_, _)
GCD(a, b) == IF b = 0 THEN a ELSE GCD(b, a % b)

\* The non-finite result of an f32 operation (NaN or an infinity).
NaN == [n |-> 0, d |-> 0]

\* The f32 value n/d, in lowest terms.
R(n, d) ==
    IF d = 0 THEN NaN
    ELSE LET g == GCD(Abs(n), Abs(d))
             s == IF d < 0 THEN -1 ELSE 1
         IN  [n |-> (s * n) \div g, d |-> (s * d) \div g]

I(k) == [n |-> k, d |-> 1]

IsFinite(a) == a.d # 0

\* a + b, a - b, a * b, a / b, -a on f32 (common factors are cancelled before
\* multiplying, the values are those of the plain formulas).
RAdd(a, b) ==
    IF a.d = 0 \/ b.d = 0 THEN NaN
    ELSE LET g == GCD(a.d, b.d)
         IN  R(a.n * (b.d \div g) + b.n * (a.d \div g), (a.d \div g) * b.d)

RNeg(a) == [n |-> -a.n, d |-> a.d]

RSub(a, b) == RAdd(a, RNeg(b))

RMul(a, b) ==
    IF a.d = 0 \/ b.d = 0 THEN NaN
    ELSE LET g1 == GCD(Abs(a.n), b.d)
             g2 == GCD(Abs(b.n), a.d)
         IN  R((a.n \div g1) * (b.n \div g2), (a.d \div g2) * (b.d \div g1))

RDiv(a, b) ==
    IF b.n = 0 THEN NaN
    ELSE RMul(a, IF b.n < 0 THEN [n |-> -b.d, d |-> -b.n] ELSE [n |-> b.d, d |-> b.n])

\* a < b, a > b, a <= b on f32 (false when an operand is NaN).
RLt(a, b) ==
    /\ a.d # 0
    /\ b.d # 0
    /\ LET g == GCD(a.d, b.d) IN a.n * (b.d \div g) < b.n * (a.d \div g)

RGt(a, b) == RLt(b, a)

RLe(a, b) == a.d # 0 /\ b.d # 0 /\ ~RLt(b, a)

\* f32::max: the larger operand; the other operand when one is NaN.
RMax(a, b) ==
    IF a.d = 0 THEN b
    ELSE IF b.d = 0 THEN a
    ELSE IF RLt(a, b) THEN b ELSE a

\* The largest k with k * k <= m, by bisection on [lo, hi).
RECURSIVE ISqrtIn(_, _, _)
ISqrtIn(m, lo, hi) ==
    IF hi - lo <= 1 THEN lo
    ELSE LET mid == (lo + hi) \div 2
         IN  IF mid * mid <= m THEN ISqrtIn(m, mid, hi) ELSE ISqrtIn(m, lo, mid)

ISqrt(m) == ISqrtIn(m, 0, IF m < 46340 THEN m + 1 ELSE 46341)

IsSquare(m) == ISqrt(m) * ISqrt(m) = m

\* The resolution to which an irrational square root is rounded.
SqrtScale == 16

\* libm::sqrtf: exact where the root is rational, rounded down to a multiple
\* of 1/SqrtScale otherwise.
RSqrt(a) ==
    IF a.d = 0 \/ a.n < 0 THEN NaN
    ELSE IF IsSquare(a.n) /\ IsSquare(a.d) THEN R(ISqrt(a.n), ISqrt(a.d))
    ELSE R(ISqrt((a.n * SqrtScale * SqrtScale) \div a.d), SqrtScale)

\* f32::EPSILON = 2^-23.
EpsilonDen == 8388608

\* a > f32::EPSILON, with a >= 0; n * 2^23 > d, computed without overflow.
GtEpsilon(a) == a.d # 0 /\ a.n > a.d \div EpsilonDen

\* ----------------------------------------------------------------- Vec2
Vec2(x, y) == [x |-> x, y |-> y]

ZERO == Vec2(I(0), I(0))

dot(a, b) == RAdd(RMul(a.x, b.x), RMul(a.y, b.y))

magnitude(v) == RSqrt(RAdd(RMul(v.x, v.x), RMul(v.y, v.y)))

\* normalize without its guard on the magnitude.
normalize_unguarded(v) == Vec2(RDiv(v.x, magnitude(v)), RDiv(v.y, magnitude(v)))

normalize(v) ==
    LET mag == magnitude(v)
    IN  IF GtEpsilon(mag) THEN Vec2(RDiv(v.x, mag), RDiv(v.y, mag)) ELSE ZERO

scale(v, factor) == Vec2(RMul(v.x, factor), RMul(v.y, factor))

add(a, b) == Vec2(RAdd(a.x, b.x), RAdd(a.y, b.y))

sub(a, b) == Vec2(RSub(a.x, b.x), RSub(a.y, b.y))

VecFinite(v) == IsFinite(v.x) /\ IsFinite(v.y)

\* ------------------------------------------------------------ RigidBody
\* RigidBody::new(x, y): mass 1.0, restitution 0.8, radius 10.0, at rest.
new_body(x, y) ==
    [position |-> Vec2(x, y), velocity |-> ZERO, acceleration |-> ZERO,
     mass |-> I(1), restitution |-> R(4, 5), radius |-> I(10)]

with_mass(body, mass) == [body EXCEPT !.mass = RMax(mass, R(1, 1000))]

with_restitution(body, restitution) ==
    [body EXCEPT !.restitution =
        IF RLt(restitution, I(0)) THEN I(0)
        ELSE IF RGt(restitution, I(1)) THEN I(1) ELSE restitution]

with_radius(body, radius) == [body EXCEPT !.radius = RMax(radius, R(1, 10))]

\* body.velocity = v: the field is public and set directly by callers.
with_velocity(body, v) == [body EXCEPT !.velocity = v]

apply_force(body, force) ==
    LET accel == scale(force, RDiv(I(1), body.mass))
    IN  [body EXCEPT !.acceleration = add(body.acceleration, accel)]

kinetic_energy(body) ==
    LET v_squared == dot(body.velocity, body.velocity)
    IN  RMul(RMul(R(1, 2), body.mass), v_squared)

\* --------------------------------------------------------- PhysicsWorld
VARIABLES
    bodies,     \* PhysicsWorld.bodies: the ordered list of RigidBody
    gravity,    \* PhysicsWorld.gravity
    dt,         \* PhysicsWorld.dt
    bounds,     \* PhysicsWorld.bounds: <<>> (None) or <<min_x, min_y, max_x, max_y>>
    family,     \* which bodies and forces the caller uses: "line" or "diag"
    steps,      \* number of step() calls made so far
    forces,     \* number of apply_force calls made so far
    last,       \* the intermediate results of the latest step() call
    ret,        \* the latest call through a boundary or engine method, and its result
    engine,     \* the QuizEngine: quiz, state, attempt_count
    app,        \* the App: its AppState
    instance,   \* the SimulationInstance: simulation, current_state, step_count
    starts      \* the start() calls that succeeded on the engine, oldest first

vars ==
    <<bodies, gravity, dt, bounds, family, steps, forces, last, ret, engine, app, instance,
      starts>>

\* The parts of the state a physics world does not hold.
NoCall == [call |-> "none", args |-> <<>>, result |-> <<>>]

NoEngine == <<>>

NoApp == <<>>

NoInstance == <<>>

NoStarts == <<>>

beside_physics == <<ret, engine, app, instance, starts>>

BesidePhysicsIdle ==
    /\ ret = NoCall /\ engine = NoEngine /\ app = NoApp /\ instance = NoInstance
    /\ starts = NoStarts

\* Bounds of the exploration.
MaxBodies == 3
MaxSteps == 2
MaxForces == 1

\* integrate with the position advanced before the velocity (explicit Euler).
integrate_explicit(body, g, h) ==
    LET b1 == apply_force(body, scale(g, body.mass))
        b2 == [b1 EXCEPT !.position = add(b1.position, scale(b1.velocity, h))]
        b3 == [b2 EXCEPT !.velocity = add(b2.velocity, scale(b2.acceleration, h))]
    IN  [b3 EXCEPT !.acceleration = ZERO]

\* integrate with the default gravity of PhysicsWorld::new in place of the world's.
integrate_default_gravity(body, g, h) ==
    LET b1 == apply_force(body, scale(Vec2(I(0), R(981, 100)), body.mass))
        b2 == [b1 EXCEPT !.velocity = add(b1.velocity, scale(b1.acceleration, h))]
        b3 == [b2 EXCEPT !.position = add(b2.position, scale(b2.velocity, h))]
    IN  [b3 EXCEPT !.acceleration = ZERO]

\* integrate without the reset of the acceleration.
integrate_keeps_acceleration(body, g, h) ==
    LET b1 == apply_force(body, scale(g, body.mass))
        b2 == [b1 EXCEPT !.velocity = add(b1.velocity, scale(b1.acceleration, h))]
    IN  [b2 EXCEPT !.position = add(b2.position, scale(b2.velocity, h))]

\* The integration loop of step(), for one body.
integrate(body, g, h) ==
    LET gravity_force == scale(g, body.mass)
        b1 == apply_force(body, gravity_force)
        b2 == [b1 EXCEPT !.velocity = add(b1.velocity, scale(b1.acceleration, h))]
        b3 == [b2 EXCEPT !.position = add(b2.position, scale(b2.velocity, h))]
    IN  [b3 EXCEPT !.acceleration = ZERO]

\* The four bound checks of step(), each on the body the previous one left.
\* left_bound reflecting the velocity without scaling it by the restitution.
left_bound_unscaled(body, min_x) ==
    IF RLt(RSub(body.position.x, body.radius), min_x)
    THEN [body EXCEPT !.position.x = RAdd(min_x, body.radius),
                      !.velocity.x = RNeg(body.velocity.x)]
    ELSE body

\* left_bound putting the center of the body on the bound.
left_bound_at_edge(body, min_x) ==
    IF RLt(RSub(body.position.x, body.radius), min_x)
    THEN [body EXCEPT !.position.x = min_x,
                      !.velocity.x = RMul(RNeg(body.velocity.x), body.restitution)]
    ELSE body

left_bound(body, min_x) ==
    IF RLt(RSub(body.position.x, body.radius), min_x)
    THEN [body EXCEPT !.position.x = RAdd(min_x, body.radius),
                      !.velocity.x = RMul(RNeg(body.velocity.x), body.restitution)]
    ELSE body

right_bound(body, max_x) ==
    IF RGt(RAdd(body.position.x, body.radius), max_x)
    THEN [body EXCEPT !.position.x = RSub(max_x, body.radius),
                      !.velocity.x = RMul(RNeg(body.velocity.x), body.restitution)]
    ELSE body

\* top_bound slowing the body along the bound as well.
top_bound_with_friction(body, min_y) ==
    IF RLt(RSub(body.position.y, body.radius), min_y)
    THEN [body EXCEPT !.position.y = RAdd(min_y, body.radius),
                      !.velocity.y = RMul(RNeg(body.velocity.y), body.restitution),
                      !.velocity.x = RMul(body.velocity.x, body.restitution)]
    ELSE body

top_bound(body, min_y) ==
    IF RLt(RSub(body.position.y, body.radius), min_y)
    THEN [body EXCEPT !.position.y = RAdd(min_y, body.radius),
                      !.velocity.y = RMul(RNeg(body.velocity.y), body.restitution)]
    ELSE body

bottom_bound(body, max_y) ==
    IF RGt(RAdd(body.position.y, body.radius), max_y)
    THEN [body EXCEPT !.position.y = RSub(max_y, body.radius),
                      !.velocity.y = RMul(RNeg(body.velocity.y), body.restitution)]
    ELSE body

handle_bounds(body, bnd) ==
    IF bnd = <<>> THEN body
    ELSE bottom_bound(top_bound(right_bound(left_bound(body, bnd[1]), bnd[3]), bnd[2]), bnd[4])

\* check_collision counting two bodies that exactly touch as colliding.
check_collision_inclusive(bs, i, j) ==
    LET diff == sub(bs[i].position, bs[j].position)
        min_dist == RAdd(bs[i].radius, bs[j].radius)
    IN  RLe(dot(diff, diff), RMul(min_dist, min_dist))

check_collision(bs, i, j) ==
    LET a == bs[i]
        b == bs[j]
        diff == sub(a.position, b.position)
        dist_sq == dot(diff, diff)
        min_dist == RAdd(a.radius, b.radius)
    IN  RLt(dist_sq, RMul(min_dist, min_dist))

\* The pieces of resolve_collision.
collision_normal(a_pos, b_pos) == normalize(sub(b_pos, a_pos))

relative_velocity(a_vel, b_vel) == sub(a_vel, b_vel)

velocities_separating(vel_along_normal) == RGt(vel_along_normal, I(0))

combined_restitution(a_rest, b_rest) == RDiv(RAdd(a_rest, b_rest), I(2))

impulse_magnitude(e, vel_along_normal, a_mass, b_mass) ==
    RDiv(RMul(RNeg(RAdd(I(1), e)), vel_along_normal),
         RAdd(RDiv(I(1), a_mass), RDiv(I(1), b_mass)))

a_velocity_after(a_vel, impulse, a_mass) == sub(a_vel, scale(impulse, RDiv(I(1), a_mass)))

\* b_velocity_after with the impulse applied in the direction body a gets it.
b_velocity_after_subtracted(b_vel, impulse, b_mass) ==
    sub(b_vel, scale(impulse, RDiv(I(1), b_mass)))

b_velocity_after(b_vel, impulse, b_mass) == add(b_vel, scale(impulse, RDiv(I(1), b_mass)))

overlap_of(a_pos, b_pos, a_radius, b_radius) ==
    RSub(RAdd(a_radius, b_radius), magnitude(sub(b_pos, a_pos)))

separation_of(normal, overlap) == scale(normal, RDiv(overlap, I(2)))

resolve_collision(bs, i, j) ==
    LET a == bs[i]
        b == bs[j]
        normal == collision_normal(a.position, b.position)
        rel_vel == relative_velocity(a.velocity, b.velocity)
        vel_along_normal == dot(rel_vel, normal)
    IN  IF velocities_separating(vel_along_normal) THEN bs
        ELSE
        LET e == combined_restitution(a.restitution, b.restitution)
            impulse_mag == impulse_magnitude(e, vel_along_normal, a.mass, b.mass)
            impulse == scale(normal, impulse_mag)
            overlap == overlap_of(a.position, b.position, a.radius, b.radius)
            separation == separation_of(normal, overlap)
            moved == RGt(overlap, I(0))
        IN  [bs EXCEPT
                ![i] = [a EXCEPT !.velocity = a_velocity_after(a.velocity, impulse, a.mass),
                                 !.position = IF moved THEN sub(a.position, separation)
                                              ELSE a.position],
                ![j] = [b EXCEPT !.velocity = b_velocity_after(b.velocity, impulse, b.mass),
                                 !.position = IF moved THEN add(b.position, separation)
                                              ELSE b.position]]

\* The nested loop of resolve_collisions from pair (i, j) on; log records, for
\* every pair checked, the two bodies as the check found them and as the pair's
\* handling left them.
pair_record(bs, nb, i, j, hit) ==
    [i |-> i, j |-> j, colliding |-> hit,
     a |-> bs[i], b |-> bs[j], a2 |-> nb[i], b2 |-> nb[j]]

\* The nested loop checking every pair on the bodies as they were when the
\* loop began, orig, and resolving it on the bodies as they are.
RECURSIVE snapshot_loop(_, _, _, _, _)
snapshot_loop(orig, bs, i, j, log) ==
    IF i > Len(bs) THEN [bodies |-> bs, log |-> log]
    ELSE IF j > Len(bs) THEN snapshot_loop(orig, bs, i + 1, i + 2, log)
    ELSE IF check_collision(orig, i, j)
         THEN LET nb == resolve_collision(bs, i, j)
              IN  snapshot_loop(orig, nb, i, j + 1,
                                Append(log, pair_record(orig, nb, i, j, TRUE)))
         ELSE snapshot_loop(orig, bs, i, j + 1,
                            Append(log, pair_record(orig, bs, i, j, FALSE)))

resolve_loop_on_snapshot(bs, i, j, log) == snapshot_loop(bs, bs, i, j, log)

RECURSIVE resolve_loop(_, _, _, _)
resolve_loop(bs, i, j, log) ==
    IF i > Len(bs) THEN [bodies |-> bs, log |-> log]
    ELSE IF j > Len(bs) THEN resolve_loop(bs, i + 1, i + 2, log)
    ELSE IF check_collision(bs, i, j)
         THEN LET nb == resolve_collision(bs, i, j)
              IN  resolve_loop(nb, i, j + 1, Append(log, pair_record(bs, nb, i, j, TRUE)))
         ELSE resolve_loop(bs, i, j + 1, Append(log, pair_record(bs, bs, i, j, FALSE)))

resolve_collisions(bs) == resolve_loop(bs, 1, 2, <<>>).bodies

\* ---------------------------------------------------------------- inputs
\* Bodies a caller adds: RigidBody::new(x, y) with the builder methods, then
\* the velocity field set.  <<x, y, vx, vy, mass, restitution, radius>>.
\* Bodies on the horizontal lines y = 0 and y = 50, moving along x.
LineInputs ==
    { <<I(0), I(0), I(0), I(0), I(1), R(1, 2), I(10)>>,
      <<I(0), I(0), I(-16), I(0), I(1), R(1, 2), I(10)>>,
      <<R(166, 5), I(50), I(-16), I(0), I(1), I(1), I(10)>>,
      <<I(50), I(50), I(16), I(0), I(1), I(1), I(10)>>,
      <<I(60), I(50), I(-16), I(0), I(1), I(1), I(10)>>,
      <<R(266, 5), I(50), I(-16), I(0), I(3), I(0), I(15)>>,
      <<I(60), I(50), I(16), I(0), I(3), I(0), I(10)>> }

\* Bodies on the line through (47, 46) of direction (3, 4), moving along it.
DiagInputs ==
    { <<I(47), I(46), I(12), I(16), I(1), I(1), I(10)>>,
      <<I(53), I(54), I(-12), I(-16), I(1), I(1), I(10)>>,
      <<I(53), I(54), I(24), I(32), I(3), I(1), I(10)>> }

\* The worlds tried hold bodies of one family, so that the distance between
\* two overlapping centers is a rational number.
BodyInputs(fam) == IF fam = "diag" THEN DiagInputs ELSE LineInputs

make_body(t) ==
    with_velocity(
        with_radius(with_restitution(with_mass(new_body(t[1], t[2]), t[5]), t[6]), t[7]),
        Vec2(t[3], t[4]))

\* PhysicsWorld::new().with_gravity(g).with_dt(h), with or without
\* with_bounds(min_x, min_y, max_x, max_y): <<g, h, bounds>>.  The last world
\* is narrower than a body.
WorldInputs ==
    { <<ZERO, R(1, 10), <<>> >>,
      <<Vec2(I(0), I(10)), R(1, 10), <<>> >>,
      <<ZERO, R(1, 10), <<I(0), I(0), I(100), I(100)>> >>,
      <<Vec2(I(0), I(10)), R(1, 10), <<I(0), I(0), I(100), I(100)>> >>,
      <<ZERO, R(1, 10), <<I(0), I(0), I(15), I(100)>> >> }

\* The forces tried on a body: along the line its family moves on.
ForceInputs(fam) ==
    IF fam = "diag" THEN { Vec2(I(180), I(240)) } ELSE { Vec2(I(480), I(0)) }

NoStep ==
    [pre |-> <<>>, integrated |-> <<>>, bounded |-> <<>>, log |-> <<>>, post |-> <<>>]

with_dt(h) == RMax(h, R(1, 1000))

Init ==
    /\ bodies = <<>>
    /\ \E w \in WorldInputs :
           /\ gravity = w[1]
           /\ dt = with_dt(w[2])
           /\ bounds = w[3]
    /\ family \in {"line", "diag"}
    /\ steps = 0
    /\ forces = 0
    /\ last = NoStep
    /\ BesidePhysicsIdle

\* world.add_body(body), while the world is being set up.
add_body ==
    /\ Len(bodies) < MaxBodies
    /\ steps = 0
    /\ \E t \in BodyInputs(family) : bodies' = Append(bodies, make_body(t))
    /\ UNCHANGED <<gravity, dt, bounds, family, steps, forces, last, beside_physics>>

\* world.bodies[k].apply_force(force)
ApplyForce ==
    /\ forces < MaxForces
    /\ \E k \in 1..Len(bodies), f \in ForceInputs(family) :
           bodies' = [bodies EXCEPT ![k] = apply_force(bodies[k], f)]
    /\ forces' = forces + 1
    /\ UNCHANGED <<gravity, dt, bounds, family, steps, last, beside_physics>>

\* step_phases with the boundary handling moved behind the pair loop.
step_phases_bounds_last(bs, g, h, bnd) ==
    LET integrated == [k \in 1..Len(bs) |-> integrate(bs[k], g, h)]
        resolved == resolve_loop(integrated, 1, 2, <<>>)
        bounded == [k \in 1..Len(bs) |-> handle_bounds(resolved.bodies[k], bnd)]
    IN  [pre |-> bs, integrated |-> integrated, bounded |-> bounded,
         log |-> resolved.log, post |-> bounded]

\* The three phases of step() on the body list, with the intermediate results.
step_phases(bs, g, h, bnd) ==
    LET integrated == [k \in 1..Len(bs) |-> integrate(bs[k], g, h)]
        bounded == [k \in 1..Len(bs) |-> handle_bounds(integrated[k], bnd)]
        resolved == resolve_loop(bounded, 1, 2, <<>>)
    IN  [pre |-> bs, integrated |-> integrated, bounded |-> bounded,
         log |-> resolved.log, post |-> resolved.bodies]

\* What step() does to the world.
step_world ==
    /\ steps < MaxSteps
    /\ \E r \in { step_phases(bodies, gravity, dt, bounds) } :
           /\ bodies' = r.post
           /\ last' = r
    /\ steps' = steps + 1
    /\ UNCHANGED <<gravity, dt, bounds, family, forces>>

\* world.step()
step == step_world /\ UNCHANGED beside_physics

Next == add_body \/ ApplyForce \/ step

Spec == Init /\ [][Next]_vars

\* ------------------------------------------------- the physics boundary
\* A second specification: a caller that builds bodies from arbitrary
\* arguments, adds them at any time, applies forces, and goes through the
\* physics_* functions of the boundary layer with a valid or a null handle.
\* Every call is recorded in ret with its arguments and its result.
MaxForceCalls == 2

MaxBoundaryBodies == 2

\* The queries a caller makes, <<handle, index>>: the first body, an index
\* past the last body, and a null handle.
QueryInputs == { <<"world", 0>>, <<"world", MaxBoundaryBodies>>, <<"null", 0>> }

\* u32::MAX, written as the i32 of the same bits.
U32_MAX == -1

Handles == {"null", "world"}

Called(name, args, result) == [call |-> name, args |-> args, result |-> result]

\* Arguments of RigidBody::new(x, y).with_mass(m).with_restitution(e)
\* .with_radius(r), in and out of range: <<x, y, vx, vy, m, e, r>>.  All on
\* the vertical line x = 50, at rest.
RawBodyInputs ==
    { <<I(50), I(20), I(0), I(0), I(-1), I(2), I(0)>>,
      <<I(50), I(50), I(0), I(0), I(3), I(-1), I(-5)>>,
      <<I(50), I(50), I(0), I(0), NaN, R(1, 2), NaN>>,
      <<I(50), I(45), I(0), I(0), I(1), R(1, 2), I(10)>>,
      <<I(50), I(60), I(0), I(0), I(1), NaN, I(10)>> }

\* Arguments of physics_add_body(handle, x, y, radius): <<x, y, radius>>.
AddBodyInputs(fam) ==
    IF fam = "raw" THEN { <<I(50), I(70), I(10)>>, <<I(50), I(80), I(-1)>> }
    ELSE { <<I(50), I(70), I(10)>> }

\* Bodies built from arguments in range, on the same vertical line.
ColumnBodyInputs ==
    { <<I(50), I(20), I(0), I(0), I(1), R(1, 2), I(10)>>,
      <<I(50), I(75), I(0), I(0), I(3), I(1), I(5)>> }

\* A "raw" caller passes arguments in and out of range and applies no force;
\* a "column" caller passes arguments in range and applies forces.
BoundaryBodyInputs(fam) == IF fam = "raw" THEN RawBodyInputs ELSE ColumnBodyInputs

\* <<gravity, argument of with_dt, bounds>>
BoundaryWorldInputs(fam) ==
    IF fam = "raw"
    THEN { <<ZERO, I(-1), <<>> >>,
           <<ZERO, NaN, <<I(0), I(0), I(100), I(100)>> >>,
           <<Vec2(I(0), I(10)), R(1, 10), <<I(0), I(0), I(100), I(100)>> >> }
    ELSE { <<Vec2(I(0), I(10)), R(1, 10), <<I(0), I(0), I(100), I(100)>> >> }

ColumnForces(fam) ==
    IF fam = "raw" THEN {} ELSE { Vec2(I(0), I(30)), Vec2(I(0), I(-60)) }

\* A push that puts the body first.
push_front(bs, body) == <<body>> \o bs

\* Vec::push
push(bs, body) == Append(bs, body)

\* The index physics_add_body returns, from the body count after the add.
added_index(count) == count - 1

\* body_coordinate answering an index past the end with the last body.
body_coordinate_of_last(h, bs, index, axis) ==
    IF h = "null" \/ Len(bs) = 0 THEN I(0)
    ELSE LET k == IF index < Len(bs) THEN index + 1 ELSE Len(bs)
         IN  IF axis = "x" THEN bs[k].position.x ELSE bs[k].position.y

\* physics_body_x / physics_body_y: bodies.get(index).map(..).unwrap_or(0.0)
body_coordinate(h, bs, index, axis) ==
    IF h = "null" THEN I(0)
    ELSE IF index < Len(bs)
         THEN (IF axis = "x" THEN bs[index + 1].position.x ELSE bs[index + 1].position.y)
         ELSE I(0)

BoundaryInit ==
    /\ bodies = <<>>
    /\ family \in {"raw", "column"}
    /\ \E w \in BoundaryWorldInputs(family) :
           /\ gravity = w[1]
           /\ dt = with_dt(w[2])
           /\ bounds = w[3]
           /\ ret = Called("with_dt", <<w[2]>>, <<>>)
    /\ steps = 0
    /\ forces = 0
    /\ last = NoStep
    /\ engine = NoEngine
    /\ app = NoApp
    /\ instance = NoInstance
    /\ starts = NoStarts

\* world.add_body(RigidBody::new(..).with_mass(..)...), at any time.
add_built_body ==
    /\ Len(bodies) < MaxBoundaryBodies
    /\ \E t \in BoundaryBodyInputs(family) :
           /\ bodies' = push(bodies, make_body(t))
           /\ ret' = Called("add_body", t, <<>>)
    /\ UNCHANGED <<gravity, dt, bounds, family, steps, forces, last, engine, app, instance, starts>>

physics_add_body ==
    /\ Len(bodies) < MaxBoundaryBodies
    /\ \E h \in Handles, t \in AddBodyInputs(family) :
           IF h = "null"
           THEN /\ ret' = Called("physics_add_body", <<h, t>>, U32_MAX)
                /\ UNCHANGED bodies
           ELSE /\ bodies' = push(bodies, with_radius(new_body(t[1], t[2]), t[3]))
                /\ ret' = Called("physics_add_body", <<h, t>>, added_index(Len(bodies')))
    /\ UNCHANGED <<gravity, dt, bounds, family, steps, forces, last, engine, app, instance, starts>>

\* world.bodies[k].apply_force(f), k counted from 0 as in the code.
apply_force_call ==
    /\ forces < MaxForceCalls
    /\ \E k \in 0..(Len(bodies) - 1), f \in ColumnForces(family) :
           /\ bodies' = [bodies EXCEPT ![k + 1] = apply_force(bodies[k + 1], f)]
           /\ ret' = Called("apply_force", <<k, f>>, <<>>)
    /\ forces' = forces + 1
    /\ UNCHANGED <<gravity, dt, bounds, family, steps, last, engine, app, instance, starts>>

physics_step ==
    \E h \in Handles :
        /\ ret' = Called("physics_step", <<h>>, <<>>)
        /\ IF h = "null"
           THEN UNCHANGED <<bodies, gravity, dt, bounds, family, steps, forces, last>>
           ELSE step_world
        /\ UNCHANGED <<engine, app, instance, starts>>

physics_body_x ==
    /\ \E q \in QueryInputs :
           ret' = Called("physics_body_x", q, body_coordinate(q[1], bodies, q[2], "x"))
    /\ UNCHANGED <<bodies, gravity, dt, bounds, family, steps, forces, last, engine, app, instance, starts>>

physics_body_y ==
    /\ \E q \in QueryInputs :
           ret' = Called("physics_body_y", q, body_coordinate(q[1], bodies, q[2], "y"))
    /\ UNCHANGED <<bodies, gravity, dt, bounds, family, steps, forces, last, engine, app, instance, starts>>

BoundaryNext ==
    \/ add_built_body
    \/ physics_add_body
    \/ apply_force_call
    \/ physics_step
    \/ physics_body_x
    \/ physics_body_y

BoundarySpec == BoundaryInit /\ [][BoundaryNext]_vars

\* ---------------------------------------------------------------- claims
\* The pairs checked by the latest step(), and those found colliding.
Entries == { last.log[k] : k \in 1..Len(last.log) }

Colliding == { p \in Entries : p.colliding }

\* Every square root taken while resolving a pair was exact.
MagnitudeExact ==
    \A p \in Colliding :
        LET d == sub(p.b.position, p.a.position)
            q == dot(d, d)
        IN  IsSquare(q.n) /\ IsSquare(q.d)

\* The vector from center a to center b, and its squared length.
CenterLine(a, b) == sub(b.position, a.position)

DistSq(a, b) == dot(CenterLine(a, b), CenterLine(a, b))

RadiusSum(a, b) == RAdd(a.radius, b.radius)

\* The rate at which b moves away from a along the line of centers, times the
\* distance: positive when the centers move apart, negative when they approach.
Parting(a, b) == dot(sub(b.velocity, a.velocity), CenterLine(a, b))

MovingApart(p) == RGt(Parting(p.a, p.b), I(0))

Approaching(p) == RLt(Parting(p.a, p.b), I(0))

VelocitiesKept(p) == p.a2.velocity = p.a.velocity /\ p.b2.velocity = p.b.velocity

PositionsKept(p) == p.a2.position = p.a.position /\ p.b2.position = p.b.position

Momentum(a, b) == add(scale(a.velocity, a.mass), scale(b.velocity, b.mass))

PairEnergy(a, b) == RAdd(kinetic_energy(a), kinetic_energy(b))

\* vel_along_normal of the spec, dot(vel_a - vel_b, normal), for velocities
\* va, vb and the normal of the pair as checked.
AlongNormal(p, va, vb) ==
    dot(sub(va, vb), normalize(CenterLine(p.a, p.b)))

\* The pair was not skipped by the early return of resolve_collision.
Resolved(p) == ~RGt(AlongNormal(p, p.a.velocity, p.b.velocity), I(0))

\* Equal and opposite velocities along the line of centers, closing in.
HeadOn(p) ==
    /\ p.a.velocity = scale(p.b.velocity, I(-1))
    /\ RSub(RMul(p.a.velocity.x, CenterLine(p.a, p.b).y),
            RMul(p.a.velocity.y, CenterLine(p.a, p.b).x)) = I(0)
    /\ Approaching(p)

\* C1 (as claimed): an overlapping head-on pair of equal masses and restitution
\* 1.0 leaves the pair handling with its velocities exchanged and its kinetic
\* energy unchanged.
C1_ElasticExchange ==
    \A p \in Colliding :
        (/\ p.a.mass = p.b.mass
         /\ p.a.restitution = I(1)
         /\ p.b.restitution = I(1)
         /\ HeadOn(p))
        => /\ p.a2.velocity = p.b.velocity
           /\ p.b2.velocity = p.a.velocity
           /\ PairEnergy(p.a2, p.b2) = PairEnergy(p.a, p.b)

\* C2 (as claimed): a colliding pair moving apart receives no impulse, an
\* approaching colliding pair receives one.
C2_ImpulseIffApproaching ==
    \A p \in Colliding :
        /\ MovingApart(p) => VelocitiesKept(p)
        /\ Approaching(p) => ~VelocitiesKept(p)

\* C3: the pair handling of a colliding pair keeps mass_a * velocity_a +
\* mass_b * velocity_b, component by component.
C3_MomentumConserved ==
    \A p \in Colliding : Momentum(p.a2, p.b2) = Momentum(p.a, p.b)

\* C3 witness: a colliding pair of unequal masses whose velocities changed.
C3_Witness ==
    \E p \in Colliding : p.a.mass # p.b.mass /\ ~VelocitiesKept(p)

\* C4 (as claimed): a resolved pair leaves with a relative velocity along the
\* normal of -e times the one it came with, e = (restitution_a + restitution_b) / 2.
C4_RestitutionLaw ==
    \A p \in Colliding :
        Resolved(p) =>
            AlongNormal(p, p.a2.velocity, p.b2.velocity) =
                RMul(RNeg(RDiv(RAdd(p.a.restitution, p.b.restitution), I(2))),
                     AlongNormal(p, p.a.velocity, p.b.velocity))

\* Body k went through the latest step() with no bound check firing on it and
\* in no colliding pair.
Untouched(k) ==
    /\ last.bounded[k] = last.integrated[k]
    /\ \A p \in Colliding : p.i # k /\ p.j # k

\* C5: an untouched body leaves step() with velocity + (gravity + acceleration)
\* * dt as velocity and position + that new velocity * dt as position; a body
\* at rest at y = 0 under gravity (0, 10) with dt = 0.1 gets velocity.y = 1
\* and position.y = 0.1.
C5_SemiImplicitEuler ==
    \A k \in 1..Len(last.pre) :
        Untouched(k) =>
            LET b == last.pre[k]
                v == add(b.velocity, scale(add(gravity, b.acceleration), dt))
            IN  /\ last.post[k].velocity = v
                /\ last.post[k].position = add(b.position, scale(v, dt))
                /\ (/\ gravity = Vec2(I(0), I(10))
                    /\ dt = R(1, 10)
                    /\ b.velocity = ZERO
                    /\ b.acceleration = ZERO
                    /\ b.position.y = I(0))
                   => /\ last.post[k].velocity.y = I(1)
                      /\ last.post[k].position.y = R(1, 10)

\* C5 witness: the body at rest at y = 0 fell for one step of 0.1 under
\* gravity (0, 10), beside an untouched body that had a force applied.
C5_Witness ==
    \E k, m \in 1..Len(last.pre) :
        /\ Untouched(k)
        /\ Untouched(m)
        /\ gravity = Vec2(I(0), I(10))
        /\ dt = R(1, 10)
        /\ last.pre[k].velocity = ZERO
        /\ last.pre[k].acceleration = ZERO
        /\ last.pre[k].position.y = I(0)
        /\ last.post[k].position.y = R(1, 10)
        /\ last.pre[m].acceleration # ZERO

\* The body fits between the two bounds of each axis.
Fits(body) ==
    /\ RLe(RMul(I(2), body.radius), RSub(bounds[3], bounds[1]))
    /\ RLe(RMul(I(2), body.radius), RSub(bounds[4], bounds[2]))

\* Body c is body b after a bound at position `at` on the axis whose components
\* are px, vx (b) and qx, wx (c) clamped it: tangent, velocity reflected and
\* scaled by the restitution.
Reflected(b, px, vx, qx, wx, at) == qx = at /\ wx = RMul(RNeg(vx), b.restitution)

\* What C6 says of body k: each bound its circle is past after integration
\* leaves it tangent to that bound with the perpendicular velocity reflected.
BoundsHandled(k) ==
    LET b == last.integrated[k]
        c == last.bounded[k]
    IN  /\ RLt(RSub(b.position.x, b.radius), bounds[1]) =>
               /\ Reflected(b, b.position.x, b.velocity.x, c.position.x, c.velocity.x,
                            RAdd(bounds[1], b.radius))
               /\ (RLt(b.velocity.x, I(0)) /\ RGt(b.restitution, I(0))) =>
                      RGt(c.velocity.x, I(0))
        /\ RGt(RAdd(b.position.x, b.radius), bounds[3]) =>
               Reflected(b, b.position.x, b.velocity.x, c.position.x, c.velocity.x,
                         RSub(bounds[3], b.radius))
        /\ RLt(RSub(b.position.y, b.radius), bounds[2]) =>
               Reflected(b, b.position.y, b.velocity.y, c.position.y, c.velocity.y,
                         RAdd(bounds[2], b.radius))
        /\ RGt(RAdd(b.position.y, b.radius), bounds[4]) =>
               Reflected(b, b.position.y, b.velocity.y, c.position.y, c.velocity.y,
                         RSub(bounds[4], b.radius))

\* C6 (as claimed): with bounds set, every body past a bound after integration
\* ends the boundary handling tangent to it, its perpendicular velocity
\* negated and scaled by its restitution.
C6_BoundReflection ==
    bounds # <<>> => \A k \in 1..Len(last.pre) : BoundsHandled(k)

\* C6 (amended): the same, for a body that fits between the bounds.
C6_BoundReflectionFitting ==
    bounds # <<>> =>
        \A k \in 1..Len(last.pre) : Fits(last.integrated[k]) => BoundsHandled(k)

\* C6 witness: a body that crossed the left bound moving left, with positive
\* restitution, left the boundary handling tangent to it and moving right.
C6_Witness ==
    /\ bounds # <<>>
    /\ \E k \in 1..Len(last.pre) :
           /\ Fits(last.integrated[k])
           /\ RLt(RSub(last.integrated[k].position.x, last.integrated[k].radius), bounds[1])
           /\ RLt(last.integrated[k].velocity.x, I(0))
           /\ RGt(last.integrated[k].restitution, I(0))
           /\ last.bounded[k].position.x = RAdd(bounds[1], last.bounded[k].radius)
           /\ RGt(last.bounded[k].velocity.x, I(0))

\* C7: a pair whose centers are at least the sum of the radii apart when it is
\* checked leaves the pair handling with velocities and positions unchanged.
C7_NoContactNoChange ==
    \A p \in Entries :
        RLe(RMul(RadiusSum(p.a, p.b), RadiusSum(p.a, p.b)), DistSq(p.a, p.b))
        => VelocitiesKept(p) /\ PositionsKept(p)

\* C7 witness: a pair exactly touching, its centers moving apart, was checked.
C7_Witness ==
    \E p \in Entries :
        /\ DistSq(p.a, p.b) = RMul(RadiusSum(p.a, p.b), RadiusSum(p.a, p.b))
        /\ MovingApart(p)
        /\ VelocitiesKept(p)

\* Body k was at rest before the latest step(), in a world without gravity.
AtRest(k) ==
    /\ gravity = ZERO
    /\ last.pre[k].velocity = ZERO
    /\ last.pre[k].acceleration = ZERO

\* C8 (as claimed): without gravity, a body with zero velocity and zero
\* acceleration has the same position after step().
C8_RestStays ==
    \A k \in 1..Len(last.pre) :
        AtRest(k) => last.post[k].position = last.pre[k].position

\* C8 (amended): the same for a body no bound check clamps and no colliding
\* pair holds; it is then still at rest, so this repeats step after step.
C8_RestStaysUntouched ==
    \A k \in 1..Len(last.pre) :
        (AtRest(k) /\ Untouched(k)) =>
            /\ last.post[k].position = last.pre[k].position
            /\ last.post[k].velocity = ZERO
            /\ last.post[k].acceleration = ZERO

\* C8 witness: a body at rest through two consecutive steps.
C8_Witness ==
    /\ steps >= 2
    /\ \E k \in 1..Len(last.pre) :
           AtRest(k) /\ Untouched(k) /\ bodies[k].position = last.pre[k].position

\* The centers of the pair are further apart than epsilon when it is checked.
Apart(p) == GtEpsilon(magnitude(CenterLine(p.a, p.b)))

\* Each body of the pair was moved by half the overlap along the normal, away
\* from the other, and the centers are then the sum of the radii apart.
Separated(p) ==
    LET normal == normalize(CenterLine(p.a, p.b))
        half == RDiv(RSub(RadiusSum(p.a, p.b), magnitude(CenterLine(p.a, p.b))), I(2))
    IN  /\ p.a2.position = sub(p.a.position, scale(normal, half))
        /\ p.b2.position = add(p.b.position, scale(normal, half))
        /\ DistSq(p.a2, p.b2) = RMul(RadiusSum(p.a, p.b), RadiusSum(p.a, p.b))

\* C9 (as claimed): every colliding pair leaves the pair handling with each
\* body moved by half the overlap and the centers the sum of the radii apart.
C9_OverlapRemoved == \A p \in Colliding : Separated(p)

\* What resolve_collision does instead: a colliding pair that the early return
\* does not skip and whose centers are further apart than epsilon leaves
\* separated; any other colliding pair keeps its positions.
SeparatedWhenResolved ==
    \A p \in Colliding :
        IF Resolved(p) /\ Apart(p) THEN Separated(p) ELSE PositionsKept(p)

\* A colliding pair off the axes was separated.
SeparatedOffAxes ==
    \E p \in Colliding :
        /\ Resolved(p)
        /\ Apart(p)
        /\ CenterLine(p.a, p.b).x # I(0)
        /\ CenterLine(p.a, p.b).y # I(0)
        /\ Separated(p)
        /\ ~PositionsKept(p)

BodyFinite(body) ==
    /\ VecFinite(body.position)
    /\ VecFinite(body.velocity)
    /\ IsFinite(body.mass)

\* The impulse resolve_collision computes for the pair.
ImpulseOf(p) ==
    LET normal == normalize(CenterLine(p.a, p.b))
        van == dot(sub(p.a.velocity, p.b.velocity), normal)
        e == RDiv(RAdd(p.a.restitution, p.b.restitution), I(2))
    IN  scale(normal,
              RDiv(RMul(RNeg(RAdd(I(1), e)), van),
                   RAdd(RDiv(I(1), p.a.mass), RDiv(I(1), p.b.mass))))

\* C10: for a colliding pair whose centers are no further apart than epsilon,
\* the normal and the impulse are zero, both velocities are kept and every
\* component of the result is finite.
C10_DegenerateFinite ==
    \A p \in Colliding :
        ~Apart(p) =>
            /\ normalize(CenterLine(p.a, p.b)) = ZERO
            /\ ImpulseOf(p) = ZERO
            /\ VelocitiesKept(p)
            /\ BodyFinite(p.a2)
            /\ BodyFinite(p.b2)

\* C10 witness: a colliding pair with coincident centers and different velocities.
C10_Witness ==
    \E p \in Colliding :
        /\ CenterLine(p.a, p.b) = ZERO
        /\ p.a.velocity # p.b.velocity
        /\ VelocitiesKept(p)
\* ------------------------------------------------------------ the quiz
\* Question: [kind, correct, points]; for CodeCompletion, correct holds the
\* blanks, each [id, acceptable_answers].  Answer: [kind, value].
\* Feedback: [correct, points_earned].  Score: [points_earned,
\* points_possible, percentage, correct_count, total_questions, passed].
\* Option<T> is <<>> (None) or <<v>> (Some(v)).
None == <<>>

Some(v) == <<v>>

Ok(v) == <<"Ok", v>>

Err(e) == <<"Err", e>>

\* The order of usize values and of (usize, usize) pairs.
key_le(a, b, pairs) ==
    IF pairs THEN a[1] < b[1] \/ (a[1] = b[1] /\ a[2] <= b[2]) ELSE a <= b

\* sort_unstable, on a Vec<usize> or a Vec<(usize, usize)>.
RECURSIVE sort_unstable(_, _)
sort_unstable(v, pairs) ==
    IF Len(v) <= 1 THEN v
    ELSE LET m == CHOOSE i \in 1..Len(v) : \A j \in 1..Len(v) : key_le(v[i], v[j], pairs)
             rest == [k \in 1..(Len(v) - 1) |-> IF k < m THEN v[k] ELSE v[k + 1]]
         IN  <<v[m]>> \o sort_unstable(rest, pairs)

\* Blank::is_acceptable
is_acceptable(blank, answer) ==
    \E k \in 1..Len(blank.acceptable_answers) : blank.acceptable_answers[k] = answer

\* filled.iter().find(|(id, _)| id == &blank.id).is_some_and(..): the first
\* entry for the blank decides.
blank_filled(blank, filled) ==
    LET hits == { k \in 1..Len(filled) : filled[k][1] = blank.id }
    IN  /\ hits # {}
        /\ LET first == CHOOSE k \in hits : \A m \in hits : k <= m
           IN  is_acceptable(blank, filled[first][2])

feedback_correct(points) == [correct |-> TRUE, points_earned |-> points]

feedback_incorrect == [correct |-> FALSE, points_earned |-> 0]

\* grade_answer comparing the selections as submitted, without sorting them.
grade_answer_as_submitted(question, answer) ==
    LET verdict ==
            IF question.kind = "MultipleChoice" /\ answer.kind = "Choice"
            THEN question.correct = answer.value
            ELSE IF question.kind = "MultipleSelect" /\ answer.kind = "MultiChoice"
            THEN question.correct = answer.value
            ELSE IF question.kind = "Ordering" /\ answer.kind = "Order"
            THEN question.correct = answer.value
            ELSE IF question.kind = "Matching" /\ answer.kind = "Pairs"
            THEN question.correct = answer.value
            ELSE IF question.kind = "CodeCompletion" /\ answer.kind = "Blanks"
            THEN \A k \in 1..Len(question.correct) :
                     blank_filled(question.correct[k], answer.value)
            ELSE FALSE
    IN  IF verdict THEN feedback_correct(question.points) ELSE feedback_incorrect

\* Grader::grade_answer
grade_answer(question, answer) ==
    LET verdict ==
            IF question.kind = "MultipleChoice" /\ answer.kind = "Choice"
            THEN question.correct = answer.value
            ELSE IF question.kind = "MultipleSelect" /\ answer.kind = "MultiChoice"
            THEN sort_unstable(question.correct, FALSE) = sort_unstable(answer.value, FALSE)
            ELSE IF question.kind = "Ordering" /\ answer.kind = "Order"
            THEN question.correct = answer.value
            ELSE IF question.kind = "Matching" /\ answer.kind = "Pairs"
            THEN sort_unstable(question.correct, TRUE) = sort_unstable(answer.value, TRUE)
            ELSE IF question.kind = "CodeCompletion" /\ answer.kind = "Blanks"
            THEN \A k \in 1..Len(question.correct) :
                     blank_filled(question.correct[k], answer.value)
            ELSE FALSE
    IN  IF verdict THEN feedback_correct(question.points) ELSE feedback_incorrect

RECURSIVE sum_of(_)
sum_of(v) == IF v = <<>> THEN 0 ELSE Head(v) + sum_of(Tail(v))

\* Quiz::total_points
total_points(quiz) == sum_of([k \in 1..Len(quiz.questions) |-> quiz.questions[k].points])

\* Score::calculate
score_calculate(points_earned, points_possible, passing_threshold, correct_count, total_questions) ==
    LET percentage ==
            IF points_possible > 0 THEN R(points_earned, points_possible) ELSE I(0)
    IN  [points_earned |-> points_earned, points_possible |-> points_possible,
         percentage |-> percentage, correct_count |-> correct_count,
         total_questions |-> total_questions,
         passed |-> RLe(passing_threshold, percentage)]

\* Grader::calculate_score
calculate_score(quiz, feedback) ==
    score_calculate(
        sum_of([k \in 1..Len(feedback) |-> feedback[k].points_earned]),
        total_points(quiz),
        quiz.passing_score,
        Cardinality({ k \in 1..Len(feedback) : feedback[k].correct }),
        Len(quiz.questions))

\* QuizState.  One record shape for the three states the engine constructs;
\* the fields a state does not have are empty.
NotStarted ==
    [tag |-> "NotStarted", current_question |-> 0, answers |-> <<>>, feedback |-> <<>>,
     score |-> None, attempt_number |-> 0]

InProgress(current_question, answers, feedback) ==
    [tag |-> "InProgress", current_question |-> current_question, answers |-> answers,
     feedback |-> feedback, score |-> None, attempt_number |-> 0]

Completed(score, attempt_number) ==
    [tag |-> "Completed", current_question |-> 0, answers |-> <<>>, feedback |-> <<>>,
     score |-> Some(score), attempt_number |-> attempt_number]

\* QuizEngine::new
new_engine(quiz) == [quiz |-> quiz, state |-> NotStarted, attempt_count |-> 0]

\* can_attempt allowing one attempt more than max_attempts.
can_attempt_once_more(e) ==
    IF e.quiz.max_attempts # None THEN e.attempt_count <= e.quiz.max_attempts[1] ELSE TRUE

\* QuizEngine::can_attempt
can_attempt(e) ==
    IF e.quiz.max_attempts # None THEN e.attempt_count < e.quiz.max_attempts[1] ELSE TRUE

\* QuizEngine::current_question.  A question is returned by its index.
current_question(e) ==
    IF e.state.tag = "InProgress"
    THEN IF e.state.current_question < Len(e.quiz.questions)
         THEN Ok(e.state.current_question)
         ELSE Err("InvalidState")
    ELSE Err("InvalidState")

\* start refusing an engine whose attempt is in progress.
start_when_idle(e) ==
    IF e.state.tag = "InProgress" THEN [engine |-> e, result |-> Err("InvalidState")]
    ELSE IF ~can_attempt(e) THEN [engine |-> e, result |-> Err("MaxAttemptsReached")]
    ELSE IF Len(e.quiz.questions) = 0 THEN [engine |-> e, result |-> Err("NoQuestions")]
    ELSE LET question_count == Len(e.quiz.questions)
             started == [e EXCEPT !.attempt_count = e.attempt_count + 1,
                                  !.state = InProgress(0,
                                                       [k \in 1..question_count |-> None],
                                                       [k \in 1..question_count |-> None])]
         IN  [engine |-> started, result |-> current_question(started)]

\* Each method below gives the engine it leaves and the Result it returns.
\* QuizEngine::start
start(e) ==
    IF ~can_attempt(e) THEN [engine |-> e, result |-> Err("MaxAttemptsReached")]
    ELSE IF Len(e.quiz.questions) = 0 THEN [engine |-> e, result |-> Err("NoQuestions")]
    ELSE LET question_count == Len(e.quiz.questions)
             started == [e EXCEPT !.attempt_count = e.attempt_count + 1,
                                  !.state = InProgress(0,
                                                       [k \in 1..question_count |-> None],
                                                       [k \in 1..question_count |-> None])]
         IN  [engine |-> started, result |-> current_question(started)]

\* QuizEngine::submit_answer
submit_answer(e, answer) ==
    IF e.state.tag # "InProgress" THEN [engine |-> e, result |-> Err("InvalidState")]
    ELSE IF ~(e.state.current_question < Len(e.quiz.questions))
    THEN [engine |-> e, result |-> Err("InvalidState")]
    ELSE LET current_idx == e.state.current_question
             feedback == grade_answer(e.quiz.questions[current_idx + 1], answer)
         IN  [engine |-> [e EXCEPT !.state.answers[current_idx + 1] = Some(answer),
                                   !.state.feedback[current_idx + 1] = Some(feedback)],
              result |-> Ok(feedback)]

\* next_question looking for the end of the quiz before the missing answer.
next_question_end_first(e) ==
    IF e.state.tag # "InProgress" THEN [engine |-> e, result |-> Err("InvalidState")]
    ELSE LET next_idx == e.state.current_question + 1
         IN  IF next_idx >= Len(e.quiz.questions)
             THEN [engine |-> e, result |-> Err("NoMoreQuestions")]
             ELSE IF e.state.answers[e.state.current_question + 1] = None
             THEN [engine |-> e, result |-> Err("QuestionNotAnswered")]
             ELSE [engine |-> [e EXCEPT !.state.current_question = next_idx],
                   result |-> Ok(next_idx)]

\* QuizEngine::next_question
next_question(e) ==
    IF e.state.tag # "InProgress" THEN [engine |-> e, result |-> Err("InvalidState")]
    ELSE IF \/ ~(e.state.current_question < Len(e.state.answers))
            \/ e.state.answers[e.state.current_question + 1] = None
    THEN [engine |-> e, result |-> Err("QuestionNotAnswered")]
    ELSE LET next_idx == e.state.current_question + 1
         IN  IF next_idx >= Len(e.quiz.questions)
             THEN [engine |-> e, result |-> Err("NoMoreQuestions")]
             ELSE [engine |-> [e EXCEPT !.state.current_question = next_idx],
                   result |-> Ok(next_idx)]

\* QuizEngine::previous_question
previous_question(e) ==
    IF e.state.tag # "InProgress" THEN [engine |-> e, result |-> Err("InvalidState")]
    ELSE IF e.state.current_question = 0
    THEN [engine |-> e, result |-> Err("NoPreviousQuestion")]
    ELSE [engine |-> [e EXCEPT !.state.current_question = e.state.current_question - 1],
          result |-> Ok(e.state.current_question - 1)]

\* finish scoring an engine in any state.
finish_in_any_state(e) ==
    LET collected_feedback ==
            [k \in 1..Len(e.state.feedback) |->
                IF e.state.feedback[k] = None THEN feedback_incorrect
                ELSE e.state.feedback[k][1]]
        score == calculate_score(e.quiz, collected_feedback)
    IN  [engine |-> [e EXCEPT !.state = Completed(score, e.attempt_count)],
         result |-> Ok(score)]

\* QuizEngine::finish
finish(e) ==
    IF e.state.tag # "InProgress" THEN [engine |-> e, result |-> Err("InvalidState")]
    ELSE LET collected_feedback ==
                 [k \in 1..Len(e.state.feedback) |->
                     IF e.state.feedback[k] = None THEN feedback_incorrect
                     ELSE e.state.feedback[k][1]]
             score == calculate_score(e.quiz, collected_feedback)
         IN  [engine |-> [e EXCEPT !.state = Completed(score, e.attempt_count)],
              result |-> Ok(score)]

\* progress measured by the position of the current question.
progress_by_position(e) ==
    IF e.state.tag = "NotStarted" THEN I(0)
    ELSE IF e.state.tag = "InProgress"
    THEN IF Len(e.quiz.questions) = 0 THEN I(0)
         ELSE R(e.state.current_question, Len(e.quiz.questions))
    ELSE I(1)

\* QuizEngine::progress
progress(e) ==
    IF e.state.tag = "NotStarted" THEN I(0)
    ELSE IF e.state.tag = "InProgress"
    THEN IF Len(e.quiz.questions) = 0 THEN I(0)
         ELSE R(Cardinality({ k \in 1..Len(e.state.answers) : e.state.answers[k] # None }),
                Len(e.quiz.questions))
    ELSE I(1)

\* quiz_current_index of the boundary layer
quiz_current_index(e) ==
    IF e.state.tag = "InProgress" THEN e.state.current_question ELSE -1

\* The i32 that quiz_start, quiz_next, quiz_submit_choice and quiz_finish of
\* the boundary layer make of the engine's Result.
quiz_result_code(call, result) ==
    IF result[1] = "Err" THEN -1
    ELSE IF call = "submit_answer" THEN (IF result[2].correct THEN 1 ELSE 0)
    ELSE IF call = "finish"
    THEN (result[2].percentage.n * 100) \div result[2].percentage.d
    ELSE 0

\* ---------------------------------------------------------- quiz inputs
MaxAttempts == 2

question(kind, correct, points) == [kind |-> kind, correct |-> correct, points |-> points]

answer(kind, value) == [kind |-> kind, value |-> value]

quiz_of(id, questions, passing_score, max_attempts) ==
    [id |-> id, questions |-> questions, passing_score |-> passing_score,
     max_attempts |-> max_attempts]

\* The quiz of quiz_create_sample; a quiz of three other kinds limited to two
\* attempts; a quiz of the two remaining kinds that needs every point; a quiz
\* worth no points; two quizzes without questions.
QuizInputs ==
    { quiz_of("sample",
              << question("MultipleChoice", 1, 10), question("MultipleChoice", 2, 10) >>,
              R(7, 10), None),
      quiz_of("mixed",
              << question("MultipleSelect", <<0, 2>>, 5),
                 question("Ordering", <<1, 0>>, 3),
                 question("FreeformCode", <<>>, 2) >>,
              R(1, 2), Some(2)),
      quiz_of("strict",
              << question("Matching", << <<0, 1>>, <<1, 0>> >>, 4),
                 question("CodeCompletion",
                          << [id |-> "b1", acceptable_answers |-> <<"x", "y">>] >>, 6) >>,
              I(1), Some(1)),
      quiz_of("free", << question("MultipleChoice", 0, 0) >>, I(0), None),
      quiz_of("empty", <<>>, R(7, 10), Some(1)),
      quiz_of("closed", <<>>, R(7, 10), Some(0)) }

\* The answers a learner of each quiz submits, right and wrong, of the type
\* of the question and of another type.
AnswerInputs(id) ==
    IF id = "sample"
    THEN { answer("Choice", 1), answer("Choice", 2), answer("Order", <<1, 0>>) }
    ELSE IF id = "mixed"
    THEN { answer("MultiChoice", <<2, 0>>), answer("MultiChoice", <<0>>),
           answer("Order", <<1, 0>>), answer("Code", "c") }
    ELSE IF id = "strict"
    THEN { answer("Pairs", << <<1, 0>>, <<0, 1>> >>),
           answer("Blanks", << <<"b1", "y">> >>),
           answer("Blanks", << <<"b1", "z">>, <<"b1", "x">> >>) }
    ELSE { answer("Choice", 0), answer("Choice", 1) }

\* ------------------------------------------------- the quiz specification
\* No physics world takes part.
physics == <<bodies, gravity, dt, bounds, family, steps, forces, last>>

PhysicsIdle ==
    /\ bodies = <<>>
    /\ gravity = Vec2(I(0), R(981, 100))
    /\ dt = R(1, 60)
    /\ bounds = <<>>
    /\ family = "none"
    /\ steps = 0
    /\ forces = 0
    /\ last = NoStep

QuizInit ==
    /\ PhysicsIdle
    /\ \E q \in QuizInputs : engine = new_engine(q)
    /\ ret = NoCall
    /\ app = NoApp
    /\ instance = NoInstance
    /\ starts = NoStarts

\* What a start() that succeeds finds: the state of the engine and the number
\* of answers that state holds.
StartedIn(e) ==
    [state |-> e.state.tag,
     answered |-> Cardinality({ k \in 1..Len(e.state.answers) : e.state.answers[k] # None })]

\* The engine method `name`, called with `args`, left `r.engine` and returned
\* `r.result`.
engine_call(name, args, r) ==
    /\ engine' = r.engine
    /\ ret' = Called(name, args, r.result)
    /\ starts' = IF name = "start" /\ r.result[1] = "Ok"
                 THEN Append(starts, StartedIn(engine))
                 ELSE starts
    /\ UNCHANGED <<physics, app, instance>>

\* engine.start(); a quiz without a limit is attempted MaxAttempts times.
Start ==
    /\ engine.quiz.max_attempts = None => engine.attempt_count < MaxAttempts
    /\ engine_call("start", <<>>, start(engine))

SubmitAnswer ==
    \E a \in AnswerInputs(engine.quiz.id) :
        engine_call("submit_answer", <<a>>, submit_answer(engine, a))

NextQuestion == engine_call("next_question", <<>>, next_question(engine))

PreviousQuestion == engine_call("previous_question", <<>>, previous_question(engine))

CurrentQuestion ==
    engine_call("current_question", <<>>, [engine |-> engine, result |-> current_question(engine)])

Finish == engine_call("finish", <<>>, finish(engine))

QuizNext ==
    \/ Start
    \/ SubmitAnswer
    \/ NextQuestion
    \/ PreviousQuestion
    \/ CurrentQuestion
    \/ Finish

QuizSpec == QuizInit /\ [][QuizNext]_vars

\* ------------------------------------------------------- the application
\* AppState: [courses, progress, current_view, active_quiz]; courses are kept
\* by their ids, active_quiz is None or Some([engine, start_time_ms]).
\* AppEvent: [kind, arg].  AppError: <<"CourseNotFound">>, <<"InvalidState">>
\* or <<"QuizError", message>>.
AppState_new ==
    [courses |-> <<>>, progress |-> None, current_view |-> "CourseList",
     active_quiz |-> None]

\* AppState::load_courses
load_courses(state, courses) == [state EXCEPT !.courses = courses]

\* AppState::set_progress
set_progress(state, learner) == [state EXCEPT !.progress = Some(learner)]

\* AppState::get_course
get_course(state, id) ==
    LET hits == { k \in 1..Len(state.courses) : state.courses[k] = id }
    IN  IF hits = {} THEN None
        ELSE Some(state.courses[CHOOSE k \in hits : \A m \in hits : k <= m])

\* AppState::navigate
navigate(state, view) == [state EXCEPT !.current_view = view]

\* AppState::start_quiz
start_quiz(state, quiz) ==
    LET r == start(new_engine(quiz))
    IN  IF r.result[1] = "Err"
        THEN [state |-> state, result |-> Err(<<"QuizError", "Failed to start quiz">>)]
        ELSE [state |-> [state EXCEPT
                             !.active_quiz = Some([engine |-> r.engine, start_time_ms |-> 0]),
                             !.current_view = "Quiz"],
              result |-> Ok(<<>>)]

\* AppState::quiz_engine_mut
quiz_engine_mut(state) ==
    IF state.active_quiz = None THEN None ELSE Some(state.active_quiz[1].engine)

\* impl Display for QuizError
display(e) ==
    CASE e = "MaxAttemptsReached" -> "Maximum attempts reached"
      [] e = "NoQuestions" -> "Quiz has no questions"
      [] e = "InvalidState" -> "Invalid state for this operation"
      [] e = "QuestionNotAnswered" -> "Current question not answered"
      [] e = "NoMoreQuestions" -> "No more questions"
      [] e = "NoPreviousQuestion" -> "No previous question"

\* engine.method(..).map_err(|e| AppError::QuizError(format!("{}", e)))?; Ok(())
\* on the engine of the active quiz, r being what the method left and returned.
forwarded(state, r) ==
    [state |-> [state EXCEPT !.active_quiz[1].engine = r.engine],
     result |-> IF r.result[1] = "Err"
                THEN Err(<<"QuizError", display(r.result[2])>>)
                ELSE Ok(<<>>)]

\* handle_event changing the view to the quiz before it forwards a quiz event.
handle_event_to_quiz_view(state, event) ==
    IF event.kind \in {"SubmitAnswer", "NextQuestion", "PreviousQuestion", "FinishQuiz"}
    THEN IF quiz_engine_mut(state) = None
         THEN [state |-> navigate(state, "Quiz"), result |-> Err(<<"InvalidState">>)]
         ELSE LET e == quiz_engine_mut(state)[1]
              IN  forwarded(navigate(state, "Quiz"),
                            CASE event.kind = "SubmitAnswer" -> submit_answer(e, event.arg)
                              [] event.kind = "NextQuestion" -> next_question(e)
                              [] event.kind = "PreviousQuestion" -> previous_question(e)
                              [] event.kind = "FinishQuiz" -> finish(e))
    ELSE [state |-> state, result |-> Ok(<<>>)]

\* App::handle_event
handle_event(state, event) ==
    CASE event.kind = "SelectCourse" ->
             IF get_course(state, event.arg) # None
             THEN [state |-> navigate(state, "CourseDetail"), result |-> Ok(<<>>)]
             ELSE [state |-> state, result |-> Err(<<"CourseNotFound">>)]
      [] event.kind = "StartQuiz" ->
             [state |-> navigate(state, "Quiz"), result |-> Ok(<<>>)]
      [] event.kind = "SubmitAnswer" ->
             IF quiz_engine_mut(state) # None
             THEN forwarded(state, submit_answer(quiz_engine_mut(state)[1], event.arg))
             ELSE [state |-> state, result |-> Err(<<"InvalidState">>)]
      [] event.kind = "NextQuestion" ->
             IF quiz_engine_mut(state) # None
             THEN forwarded(state, next_question(quiz_engine_mut(state)[1]))
             ELSE [state |-> state, result |-> Err(<<"InvalidState">>)]
      [] event.kind = "PreviousQuestion" ->
             IF quiz_engine_mut(state) # None
             THEN forwarded(state, previous_question(quiz_engine_mut(state)[1]))
             ELSE [state |-> state, result |-> Err(<<"InvalidState">>)]
      [] event.kind = "FinishQuiz" ->
             IF quiz_engine_mut(state) # None
             THEN forwarded(state, finish(quiz_engine_mut(state)[1]))
             ELSE [state |-> state, result |-> Err(<<"InvalidState">>)]
      [] event.kind = "GoBack" ->
             [state |-> navigate(state, "CourseList"), result |-> Ok(<<>>)]
      [] event.kind = "ViewProfile" ->
             [state |-> navigate(state, "Profile"), result |-> Ok(<<>>)]
      [] OTHER -> [state |-> state, result |-> Ok(<<>>)]

\* ------------------------------------------------------------ app inputs
event(kind, arg) == [kind |-> kind, arg |-> arg]

\* The quizzes the application starts: the sample quiz and one without
\* questions.
AppQuizInputs == { q \in QuizInputs : q.id \in {"sample", "empty"} }

CourseInputs == { <<"rust">> }

\* Every kind of AppEvent, the quiz events with the answers of the quiz that
\* is active, or of the sample quiz when none is.
EventInputs(state) ==
    { event("SelectCourse", "rust"), event("SelectCourse", "missing"),
      event("SelectModule", "m1"), event("SelectLesson", "l1"),
      event("StartQuiz", "sample"), event("NextQuestion", <<>>),
      event("PreviousQuestion", <<>>), event("FinishQuiz", <<>>),
      event("StartLab", "lab1"), event("RunLabTests", <<>>), event("SubmitLab", <<>>),
      event("GoBack", <<>>), event("ViewProfile", <<>>) }
    \cup { event("SubmitAnswer", a) :
               a \in AnswerInputs(IF state.active_quiz = None THEN "sample"
                                  ELSE state.active_quiz[1].engine.quiz.id) }

\* -------------------------------------------- the application specification
\* No physics world and no engine outside the application take part.
AppInit ==
    /\ PhysicsIdle
    /\ engine = NoEngine
    /\ instance = NoInstance
    /\ starts = NoStarts
    /\ ret = NoCall
    /\ app = AppState_new

app_call(name, args, r) ==
    /\ app' = r.state
    /\ ret' = Called(name, args, r.result)
    /\ UNCHANGED <<physics, engine, instance, starts>>

\* app.state_mut().load_courses(courses)
LoadCourses ==
    \E c \in CourseInputs :
        /\ app.courses = <<>>
        /\ app_call("load_courses", <<c>>, [state |-> load_courses(app, c), result |-> <<>>])

\* app.state_mut().set_progress(progress)
SetProgress ==
    /\ app.progress = None
    /\ app_call("set_progress", <<"learner">>,
                [state |-> set_progress(app, "learner"), result |-> <<>>])

\* app.state_mut().start_quiz(quiz)
StartQuiz ==
    \E q \in AppQuizInputs : app_call("start_quiz", <<q.id>>, start_quiz(app, q))

\* app.handle_event(event)
HandleEvent ==
    \E ev \in EventInputs(app) : app_call("handle_event", <<ev>>, handle_event(app, ev))

AppNext ==
    \/ LoadCourses
    \/ SetProgress
    \/ StartQuiz
    \/ HandleEvent

AppSpec == AppInit /\ [][AppNext]_vars

\* -------------------------------------------- the state machine simulation
\* Value, Trigger, Condition and Action are enums; each is one record shape
\* whose `kind` names the variant, the fields of the other variants being
\* left at a default.  f64 values are whole numbers here.
Value_Bool(b) == [kind |-> "Bool", bool |-> b, num |-> 0, text |-> ""]

Value_Int(i) == [kind |-> "Int", bool |-> FALSE, num |-> i, text |-> ""]

Value_Float(f) == [kind |-> "Float", bool |-> FALSE, num |-> f, text |-> ""]

Value_String(t) == [kind |-> "String", bool |-> FALSE, num |-> 0, text |-> t]

\* Value::as_float
as_float(value) ==
    IF value.kind = "Float" THEN Some(value.num)
    ELSE IF value.kind = "Int" THEN Some(value.num)
    ELSE None

Position(x, y) == [x |-> x, y |-> y]

\* Entity::new(id).with_position(x, y)
Entity(id, x, y) == [id |-> id, position |-> Position(x, y)]

UserClick(target) == [kind |-> "UserClick", target |-> target, interval_ms |-> 0, variable |-> ""]

UserDrag(target) == [kind |-> "UserDrag", target |-> target, interval_ms |-> 0, variable |-> ""]

Timer(interval_ms) == [kind |-> "Timer", target |-> "", interval_ms |-> interval_ms, variable |-> ""]

StateChange(variable) == [kind |-> "StateChange", target |-> "", interval_ms |-> 0, variable |-> variable]

Equals(variable, value) ==
    [kind |-> "Equals", variable |-> variable, value |-> value, threshold |-> 0]

GreaterThan(variable, value) ==
    [kind |-> "GreaterThan", variable |-> variable, value |-> Value_Float(0), threshold |-> value]

LessThan(variable, value) ==
    [kind |-> "LessThan", variable |-> variable, value |-> Value_Float(0), threshold |-> value]

SetVariable(name, value) ==
    [kind |-> "SetVariable", name |-> name, value |-> value, to |-> Position(0, 0), text |-> ""]

MoveEntity(id, to) ==
    [kind |-> "MoveEntity", name |-> id, value |-> Value_Float(0), to |-> to, text |-> ""]

ShowMessage(text) ==
    [kind |-> "ShowMessage", name |-> "", value |-> Value_Float(0), to |-> Position(0, 0), text |-> text]

AdvanceStep ==
    [kind |-> "AdvanceStep", name |-> "", value |-> Value_Float(0), to |-> Position(0, 0), text |-> ""]

\* Transition::new(trigger) with its condition (None or Some) and actions.
Transition(trigger, condition, actions) ==
    [trigger |-> trigger, condition |-> condition, actions |-> actions]

\* SimState: variables is the BTreeMap, a function on the names it holds.
SimState(variables, entities, time) ==
    [variables |-> variables, entities |-> entities, time |-> time]

\* SimState::get_variable
get_variable(state, name) ==
    IF name \in DOMAIN state.variables THEN Some(state.variables[name]) ELSE None

\* SimState::set_variable
set_variable(state, name, value) ==
    [state EXCEPT !.variables =
        [n \in DOMAIN state.variables \cup {name} |->
            IF n = name THEN value ELSE state.variables[n]]]

\* SimState::get_entity_mut: the index of the first entity of that id, or 0.
get_entity_mut(state, id) ==
    LET hits == { k \in 1..Len(state.entities) : state.entities[k].id = id }
    IN  IF hits = {} THEN 0 ELSE CHOOSE k \in hits : \A m \in hits : k <= m

Simulation(id, initial_state, transitions) ==
    [id |-> id, initial_state |-> initial_state, transitions |-> transitions]

\* Simulation::instantiate
instantiate(simulation) ==
    [simulation |-> simulation, current_state |-> simulation.initial_state, step_count |-> 0]

\* SimulationInstance::trigger_matches
trigger_matches(defined, received) ==
    IF defined.kind = "UserClick" /\ received.kind = "UserClick"
    THEN defined.target = received.target
    ELSE IF defined.kind = "UserDrag" /\ received.kind = "UserDrag"
    THEN defined.target = received.target
    ELSE IF defined.kind = "Timer" /\ received.kind = "Timer" THEN TRUE
    ELSE IF defined.kind = "StateChange" /\ received.kind = "StateChange"
    THEN defined.variable = received.variable
    ELSE FALSE

\* SimulationInstance::condition_satisfied
condition_satisfied(inst, condition) ==
    IF condition = None THEN TRUE
    ELSE LET c == condition[1]
             held == get_variable(inst.current_state, c.variable)
         IN  IF c.kind = "Equals" THEN held = Some(c.value)
             ELSE IF c.kind = "GreaterThan"
             THEN /\ held # None
                  /\ as_float(held[1]) # None
                  /\ as_float(held[1])[1] > c.threshold
             ELSE /\ held # None
                  /\ as_float(held[1]) # None
                  /\ as_float(held[1])[1] < c.threshold

\* SimulationInstance::execute_action
execute_action(inst, action) ==
    IF action.kind = "SetVariable"
    THEN [inst EXCEPT !.current_state = set_variable(inst.current_state, action.name, action.value)]
    ELSE IF action.kind = "MoveEntity"
    THEN LET k == get_entity_mut(inst.current_state, action.name)
         IN  IF k = 0 THEN inst
             ELSE [inst EXCEPT !.current_state.entities[k].position = action.to]
    ELSE IF action.kind = "AdvanceStep"
    THEN [inst EXCEPT !.step_count = inst.step_count + 1]
    ELSE inst

\* for action in &actions { self.execute_action(action) }
RECURSIVE execute_all(_, _)
execute_all(inst, actions) ==
    IF actions = <<>> THEN inst
    ELSE execute_all(execute_action(inst, Head(actions)), Tail(actions))

\* transitions.iter().filter(trigger_matches).filter(condition_satisfied)
\*     .flat_map(|t| t.actions.clone()).collect(), evaluated on inst.
RECURSIVE actions_to_execute(_, _, _)
actions_to_execute(inst, transitions, trigger) ==
    IF transitions = <<>> THEN <<>>
    ELSE LET t == Head(transitions)
             taken == /\ trigger_matches(t.trigger, trigger)
                      /\ condition_satisfied(inst, t.condition)
         IN  (IF taken THEN t.actions ELSE <<>>)
                 \o actions_to_execute(inst, Tail(transitions), trigger)

\* process_trigger testing each condition on the state left by the actions of
\* the transitions before it.
RECURSIVE run_transitions(_, _, _)
run_transitions(inst, transitions, trigger) ==
    IF transitions = <<>> THEN [instance |-> inst, result |-> <<>>]
    ELSE LET t == Head(transitions)
             taken == /\ trigger_matches(t.trigger, trigger)
                      /\ condition_satisfied(inst, t.condition)
             done == IF taken THEN t.actions ELSE <<>>
             rest == run_transitions(execute_all(inst, done), Tail(transitions), trigger)
         IN  [instance |-> rest.instance, result |-> done \o rest.result]

process_trigger_as_it_goes(inst, trigger) ==
    run_transitions(inst, inst.simulation.transitions, trigger)

\* SimulationInstance::process_trigger
process_trigger(inst, trigger) ==
    LET actions == actions_to_execute(inst, inst.simulation.transitions, trigger)
    IN  [instance |-> execute_all(inst, actions), result |-> actions]

\* SimulationInstance::advance_time
advance_time(inst, delta) ==
    [inst EXCEPT !.current_state.time = inst.current_state.time + delta]

\* SimulationInstance::reset
reset(inst) ==
    [inst EXCEPT !.current_state = inst.simulation.initial_state, !.step_count = 0]

\* ----------------------------------------------------- simulation inputs
MaxStepCount == 3

MaxTime == 2

\* A counter driven by clicks: the first transition always fires on a click,
\* the next two depend on the count the first one writes; a timer, a drag
\* whose condition compares an Int with a Float, two state changes, one of
\* them on a variable that is never set.  And a simulation without transitions.
SimulationInputs ==
    { Simulation("counter",
          SimState([n \in {"count"} |-> Value_Int(0)], << Entity("ball", 0, 0) >>, 0),
          << Transition(UserClick("btn"), None,
                        << SetVariable("count", Value_Int(1)), AdvanceStep >>),
             Transition(UserClick("btn"), Some(Equals("count", Value_Int(1))),
                        << SetVariable("count", Value_Int(2)),
                           MoveEntity("ball", Position(5, 5)),
                           ShowMessage("one") >>),
             Transition(UserClick("btn"), Some(GreaterThan("count", 1)),
                        << MoveEntity("ghost", Position(1, 1)),
                           SetVariable("count", Value_Int(0)) >>),
             Transition(Timer(1000), Some(LessThan("count", 2)), << AdvanceStep >>),
             Transition(UserDrag("ball"), Some(Equals("count", Value_Float(1))),
                        << ShowMessage("dragged") >>),
             Transition(StateChange("count"), Some(GreaterThan("missing", 0)),
                        << AdvanceStep >>),
             Transition(StateChange("count"), None,
                        << SetVariable("flag", Value_Bool(TRUE)),
                           MoveEntity("ball", Position(0, 0)) >>) >>),
      Simulation("still", SimState(<<>>, <<>>, 0), <<>>) }

TriggerInputs ==
    { UserClick("btn"), UserClick("other"), UserDrag("ball"), Timer(500),
      StateChange("count"), StateChange("flag") }

\* ------------------------------------------ the simulation specification
\* No physics world, engine or application takes part.
SimInit ==
    /\ PhysicsIdle
    /\ engine = NoEngine
    /\ app = NoApp
    /\ ret = NoCall
    /\ starts = NoStarts
    /\ \E sim \in SimulationInputs : instance = instantiate(sim)

instance_call(name, args, r) ==
    /\ instance' = r.instance
    /\ ret' = Called(name, args, r.result)
    /\ UNCHANGED <<physics, engine, app, starts>>

\* instance.process_trigger(&trigger)
ProcessTrigger ==
    \E trigger \in TriggerInputs :
        /\ instance.step_count < MaxStepCount
        /\ instance_call("process_trigger", <<trigger>>, process_trigger(instance, trigger))

\* instance.advance_time(delta)
AdvanceTime ==
    /\ instance.current_state.time < MaxTime
    /\ instance_call("advance_time", <<1>>,
                     [instance |-> advance_time(instance, 1), result |-> <<>>])

\* instance.reset()
Reset == instance_call("reset", <<>>, [instance |-> reset(instance), result |-> <<>>])

SimNext ==
    \/ ProcessTrigger
    \/ AdvanceTime
    \/ Reset

SimSpec == SimInit /\ [][SimNext]_vars

\* ------------------------------------------------ claims on the boundary
\* The constructor arguments of the body the latest call added, when it added one.
Built == ret.call = "add_body" /\ Len(bodies) > 0

BuiltBody == bodies[Len(bodies)]

\* v is the valid value nearest to the argument: the argument itself when it
\* is at least lo (and at most hi), else the bound it is beyond.
NearestAbove(v, arg, lo) ==
    /\ RLe(lo, arg) => v = arg
    /\ RLt(arg, lo) => v = lo

NearestWithin(v, arg, lo, hi) ==
    /\ (RLe(lo, arg) /\ RLe(arg, hi)) => v = arg
    /\ RLt(arg, lo) => v = lo
    /\ RGt(arg, hi) => v = hi

MassValid(body) == RLe(R(1, 1000), body.mass)

RestitutionValid(body) == RLe(I(0), body.restitution) /\ RLe(body.restitution, I(1))

RadiusValid(body) == RLe(R(1, 10), body.radius)

\* Every argument of the latest constructing call was clamped to the nearest
\* valid value.
ArgumentsClamped ==
    /\ ret.call = "with_dt" => NearestAbove(dt, ret.args[1], R(1, 1000))
    /\ Built =>
           /\ NearestAbove(BuiltBody.mass, ret.args[5], R(1, 1000))
           /\ NearestWithin(BuiltBody.restitution, ret.args[6], I(0), I(1))
           /\ NearestAbove(BuiltBody.radius, ret.args[7], R(1, 10))
    /\ (ret.call = "physics_add_body" /\ ret.args[1] = "world") =>
           NearestAbove(BuiltBody.radius, ret.args[2][3], R(1, 10))

\* A step of the world keeps every parameter.
ParametersKept ==
    /\ gravity' = gravity
    /\ dt' = dt
    /\ bounds' = bounds
    /\ Len(bodies') = Len(bodies)
    /\ \A k \in 1..Len(bodies) :
           /\ bodies'[k].mass = bodies[k].mass
           /\ bodies'[k].restitution = bodies[k].restitution
           /\ bodies'[k].radius = bodies[k].radius

\* C11 (as claimed): in every reachable world every body has mass >= 0.001,
\* 0 <= restitution <= 1 and radius >= 0.1, and dt >= 0.001; an argument out
\* of range was clamped to the nearest valid value; step() changes none of
\* mass, restitution, radius, dt, gravity and bounds.
C11_ParametersValid ==
    /\ [](/\ \A k \in 1..Len(bodies) :
                 MassValid(bodies[k]) /\ RestitutionValid(bodies[k]) /\ RadiusValid(bodies[k])
          /\ RLe(R(1, 1000), dt)
          /\ ArgumentsClamped)
    /\ [][ret'.call = "physics_step" => ParametersKept]_vars

\* What holds instead: the same, except that a body built with a NaN
\* restitution has a NaN restitution.
ParametersValidUnlessNaN ==
    /\ [](/\ \A k \in 1..Len(bodies) :
                 /\ MassValid(bodies[k])
                 /\ RestitutionValid(bodies[k]) \/ bodies[k].restitution = NaN
                 /\ RadiusValid(bodies[k])
          /\ RLe(R(1, 1000), dt)
          /\ ArgumentsClamped)
    /\ [][ret'.call = "physics_step" => ParametersKept]_vars

\* A body built with a NaN restitution has been through a step.
NaNRestitutionKept ==
    /\ ret.call = "physics_step"
    /\ \E k \in 1..Len(bodies) :
           bodies[k].restitution = NaN /\ last.pre[k].restitution = NaN
\* The step being taken is a call that adds a body to the world.
Adding ==
    \/ ret'.call = "add_body"
    \/ ret'.call = "physics_add_body" /\ ret'.args[1] = "world"

\* C12: a call that adds a body puts it after the bodies already there, which
\* keep their places, and physics_add_body returns the body count before the
\* add, the index of the new body; any other call, step() included, keeps the
\* number of bodies, and step() keeps at each index the body that was there
\* (same mass, restitution and radius).  So body_count() counts the adds, and
\* an index once returned keeps addressing the same body.
C12_StableIndexes ==
    [][/\ Adding =>
              /\ Len(bodies') = Len(bodies) + 1
              /\ \A k \in 1..Len(bodies) : bodies'[k] = bodies[k]
              /\ ret'.call = "physics_add_body" =>
                     /\ ret'.result = Len(bodies)
                     /\ bodies'[ret'.result + 1].position =
                            Vec2(ret'.args[2][1], ret'.args[2][2])
       /\ ~Adding => Len(bodies') = Len(bodies)
       /\ ret'.call = "physics_step" =>
              \A k \in 1..Len(bodies) :
                  /\ bodies'[k].mass = bodies[k].mass
                  /\ bodies'[k].restitution = bodies[k].restitution
                  /\ bodies'[k].radius = bodies[k].radius]_vars

\* C12 witness: physics_add_body returned index 1 for a body added after a
\* step of a world that held one body, of another radius.
C12_Witness ==
    /\ ret.call = "physics_add_body"
    /\ ret.result = 1
    /\ steps >= 1
    /\ Len(bodies) = 2
    /\ bodies[1].radius # bodies[2].radius
    /\ bodies[2].position = Vec2(ret.args[2][1], ret.args[2][2])
\* C13: apply_force adds force / mass to the acceleration of its body and
\* changes nothing else; step() integrates every body with velocity +
\* (gravity + acceleration) * dt and leaves every acceleration (0, 0), so an
\* applied force acts in the next step() and in no later one.
C13_ForcesLastOneStep ==
    [][/\ ret'.call = "apply_force" =>
              LET k == ret'.args[1] + 1
                  f == ret'.args[2]
              IN  /\ bodies'[k].acceleration =
                         add(bodies[k].acceleration, scale(f, RDiv(I(1), bodies[k].mass)))
                  /\ bodies'[k].velocity = bodies[k].velocity
                  /\ bodies'[k].position = bodies[k].position
                  /\ \A m \in 1..Len(bodies) : m # k => bodies'[m] = bodies[m]
       /\ (ret'.call = "physics_step" /\ ret'.args[1] = "world") =>
              \A k \in 1..Len(bodies) :
                  /\ bodies'[k].acceleration = ZERO
                  /\ last'.integrated[k].velocity =
                         add(bodies[k].velocity,
                             scale(add(gravity, bodies[k].acceleration), dt))]_vars

\* C13 witness: a step integrated a body on which the two forces (0, 30) and
\* (0, -60) had been applied, and left it without acceleration.
C13_Witness ==
    /\ ret.call = "physics_step"
    /\ forces = 2
    /\ \E k \in 1..Len(bodies) :
           /\ last.pre[k].acceleration =
                  scale(Vec2(I(0), I(-30)), RDiv(I(1), last.pre[k].mass))
           /\ last.integrated[k].velocity # add(last.pre[k].velocity, scale(gravity, dt))
           /\ bodies[k].acceleration = ZERO
\* The step being taken is a by-index query.
Querying == ret'.call \in {"physics_body_x", "physics_body_y"}

\* C14: physics_body_x and physics_body_y return 0.0 for a null handle and for
\* an index >= body_count(), and change nothing of the world.
C14_QueriesDefault ==
    [][Querying =>
           /\ (ret'.args[1] = "null" \/ ret'.args[2] >= Len(bodies)) => ret'.result = I(0)
           /\ UNCHANGED <<bodies, gravity, dt, bounds>>]_vars

\* C14 witness: a world whose first body is away from x = 0 answered 0.0 to a
\* query of physics_body_x past its last body.
C14_Witness ==
    /\ ret.call = "physics_body_x"
    /\ ret.args[1] = "world"
    /\ Len(bodies) > 0
    /\ ret.args[2] >= Len(bodies)
    /\ bodies[1].position.x # I(0)
    /\ ret.result = I(0)
\* ---------------------------------------------------- claims on the quiz
\* The methods that need a quiz in progress.
InProgressMethods ==
    {"submit_answer", "next_question", "previous_question", "current_question", "finish"}

Idle(e) == e.state.tag \in {"NotStarted", "Completed"}

\* C15: an engine on which nothing was called is NotStarted; a successful
\* start() leaves it InProgress at question 0 with no answer recorded;
\* finish() in InProgress leaves it Completed; submit_answer, next_question,
\* previous_question, current_question and finish called in NotStarted or
\* Completed return Err(InvalidState) and keep state and attempt_count, and
\* the boundary layer then reports index -1 and result -1.
C15_Lifecycle ==
    /\ [](ret = NoCall => engine = new_engine(engine.quiz) /\ engine.state = NotStarted)
    /\ [][/\ (ret'.call = "start" /\ ret'.result[1] = "Ok") =>
                 engine'.state =
                     InProgress(0, [k \in 1..Len(engine.quiz.questions) |-> None],
                                [k \in 1..Len(engine.quiz.questions) |-> None])
          /\ (ret'.call = "finish" /\ engine.state.tag = "InProgress") =>
                 /\ engine'.state.tag = "Completed"
                 /\ ret'.result[1] = "Ok"
          /\ (ret'.call \in InProgressMethods /\ Idle(engine)) =>
                 /\ ret'.result = Err("InvalidState")
                 /\ engine'.state = engine.state
                 /\ engine'.attempt_count = engine.attempt_count
                 /\ quiz_current_index(engine') = -1
                 /\ quiz_result_code(ret'.call, ret'.result) = -1]_vars

\* C15 witness: submit_answer was refused on an engine that went through
\* start, an answer and finish.
C15_Witness ==
    /\ ret.call = "submit_answer"
    /\ ret.result = Err("InvalidState")
    /\ engine.state.tag = "Completed"
    /\ engine.state.score[1].correct_count > 0
    /\ engine.attempt_count = 1

\* The attempts of the quiz are limited and used up.
Exhausted(e) ==
    e.quiz.max_attempts # None /\ e.attempt_count >= e.quiz.max_attempts[1]

WithinLimit(e) ==
    e.quiz.max_attempts # None => e.attempt_count <= e.quiz.max_attempts[1]

\* C16 (as claimed): start() with the attempts used up returns
\* Err(MaxAttemptsReached) and keeps state and attempt_count; start() of a quiz
\* without questions returns Err(NoQuestions) and counts no attempt;
\* attempt_count never exceeds max_attempts.
C16_AttemptLimit ==
    /\ []WithinLimit(engine)
    /\ [][ret'.call = "start" =>
              /\ Exhausted(engine) =>
                     ret'.result = Err("MaxAttemptsReached") /\ engine' = engine
              /\ Len(engine.quiz.questions) = 0 =>
                     ret'.result = Err("NoQuestions") /\ engine' = engine]_vars

\* C16 (amended): the same, Err(NoQuestions) being returned for a quiz
\* without questions whose attempts are not used up.
C16_AttemptLimitFirst ==
    /\ []WithinLimit(engine)
    /\ [][ret'.call = "start" =>
              /\ Exhausted(engine) =>
                     ret'.result = Err("MaxAttemptsReached") /\ engine' = engine
              /\ (Len(engine.quiz.questions) = 0 /\ ~Exhausted(engine)) =>
                     ret'.result = Err("NoQuestions") /\ engine' = engine]_vars

\* C16 witness: the third start() of a quiz limited to two attempts was
\* refused, the second attempt being left as it was, completed.
C16_Witness ==
    /\ ret.call = "start"
    /\ ret.result = Err("MaxAttemptsReached")
    /\ engine.quiz.max_attempts = Some(2)
    /\ engine.attempt_count = 2
    /\ engine.state.tag = "Completed"

\* The current question is one of the quiz.
InRange(e) ==
    e.state.tag = "InProgress" =>
        0 <= e.state.current_question /\ e.state.current_question < Len(e.quiz.questions)

Unanswered(e) == e.state.answers[e.state.current_question + 1] = None

AtLast(e) == e.state.current_question + 1 = Len(e.quiz.questions)

Navigating == ret'.call \in {"next_question", "previous_question"}

\* A refused move keeps the current question, a move changes it by one.
MovedByOne ==
    IF ret'.result[1] = "Err"
    THEN engine'.state.current_question = engine.state.current_question
    ELSE engine'.state.current_question - engine.state.current_question \in {1, -1}

\* C17 (as claimed): in InProgress next_question() returns
\* Err(QuestionNotAnswered) when the current question has no answer and
\* Err(NoMoreQuestions) when it is the last one, previous_question() returns
\* Err(NoPreviousQuestion) at question 0; an error keeps current_question, a
\* success changes it by exactly one; 0 <= current_question < question count
\* in every InProgress state.
C17_Navigation ==
    /\ []InRange(engine)
    /\ [][(Navigating /\ engine.state.tag = "InProgress") =>
              /\ (ret'.call = "next_question" /\ Unanswered(engine)) =>
                     ret'.result = Err("QuestionNotAnswered")
              /\ (ret'.call = "next_question" /\ AtLast(engine)) =>
                     ret'.result = Err("NoMoreQuestions")
              /\ (ret'.call = "previous_question" /\ engine.state.current_question = 0) =>
                     ret'.result = Err("NoPreviousQuestion")
              /\ MovedByOne]_vars

\* C17 (amended): the same, Err(NoMoreQuestions) being returned when the
\* current question is the last one and has an answer.
C17_NavigationAnsweredFirst ==
    /\ []InRange(engine)
    /\ [][(Navigating /\ engine.state.tag = "InProgress") =>
              /\ (ret'.call = "next_question" /\ Unanswered(engine)) =>
                     ret'.result = Err("QuestionNotAnswered")
              /\ (ret'.call = "next_question" /\ AtLast(engine) /\ ~Unanswered(engine)) =>
                     ret'.result = Err("NoMoreQuestions")
              /\ (ret'.call = "previous_question" /\ engine.state.current_question = 0) =>
                     ret'.result = Err("NoPreviousQuestion")
              /\ MovedByOne]_vars

\* C17 witness: next_question() was refused at the last, answered question
\* of a quiz of three questions.
C17_Witness ==
    /\ ret.call = "next_question"
    /\ ret.result = Err("NoMoreQuestions")
    /\ engine.state.tag = "InProgress"
    /\ engine.state.current_question = 2
    /\ AtLast(engine)
    /\ ~Unanswered(engine)

\* The answer type each question type takes.
AnswerKind(kind) ==
    CASE kind = "MultipleChoice" -> "Choice"
      [] kind = "MultipleSelect" -> "MultiChoice"
      [] kind = "Ordering" -> "Order"
      [] kind = "Matching" -> "Pairs"
      [] kind = "CodeCompletion" -> "Blanks"
      [] kind = "FreeformCode" -> "Code"

Occurrences(v, x) == Cardinality({ k \in 1..Len(v) : v[k] = x })

\* The same elements, as often, in any order.
SameElements(a, b) ==
    /\ Len(a) = Len(b)
    /\ \A k \in 1..Len(a) : Occurrences(a, a[k]) = Occurrences(b, a[k])

\* An answer of the question's type is correct: the index, the set of
\* selections, the order, the set of pairs, a first entry accepted for every
\* blank.  Code is not executed and is never correct.
RightAnswer(q, a) ==
    CASE q.kind = "MultipleChoice" -> a.value = q.correct
      [] q.kind = "MultipleSelect" -> SameElements(a.value, q.correct)
      [] q.kind = "Ordering" -> a.value = q.correct
      [] q.kind = "Matching" -> SameElements(a.value, q.correct)
      [] q.kind = "CodeCompletion" ->
             \A b \in 1..Len(q.correct) :
                 \E k \in 1..Len(a.value) :
                     /\ a.value[k][1] = q.correct[b].id
                     /\ \A j \in 1..(k - 1) : a.value[j][1] # q.correct[b].id
                     /\ \E m \in 1..Len(q.correct[b].acceptable_answers) :
                            q.correct[b].acceptable_answers[m] = a.value[k][2]
      [] q.kind = "FreeformCode" -> FALSE

\* The question counts as correct for the recorded answer, if any.
CountsCorrect(q, recorded) ==
    /\ recorded # None
    /\ recorded[1].kind = AnswerKind(q.kind)
    /\ RightAnswer(q, recorded[1])

Earned(q, recorded) == IF CountsCorrect(q, recorded) THEN q.points ELSE 0

\* The score expected of the answers recorded in engine e.
ScoreExpected(e, score) ==
    LET n == Len(e.quiz.questions)
        earned == sum_of([k \in 1..n |-> Earned(e.quiz.questions[k], e.state.answers[k])])
        possible == sum_of([k \in 1..n |-> e.quiz.questions[k].points])
        threshold == e.quiz.passing_score
    IN  /\ score.points_earned = earned
        /\ score.points_possible = possible
        /\ score.correct_count =
               Cardinality({ k \in 1..n : CountsCorrect(e.quiz.questions[k], e.state.answers[k]) })
        /\ score.points_earned <= score.points_possible
        /\ score.passed <=>
               IF possible > 0 THEN earned * threshold.d >= threshold.n * possible
               ELSE 0 >= threshold.n

\* C18: the answers recorded are the last ones submitted in the current
\* attempt (start() clears them, submit_answer() replaces the one of the
\* current question, moving keeps them), and finish() returns the Score in
\* which a question earns its points iff its recorded answer has the
\* question's type and is correct and 0 otherwise, points_earned is the sum,
\* correct_count the number of correct questions, points_earned is at most
\* points_possible, and passed iff points_earned / points_possible (0 when
\* points_possible is 0) is at least passing_score.
C18_FinishScores ==
    [][/\ (ret'.call = "start" /\ ret'.result[1] = "Ok") =>
              \A k \in 1..Len(engine.quiz.questions) : engine'.state.answers[k] = None
       /\ (ret'.call = "submit_answer" /\ ret'.result[1] = "Ok") =>
              engine'.state.answers =
                  [engine.state.answers EXCEPT
                       ![engine.state.current_question + 1] = Some(ret'.args[1])]
       /\ (ret'.call \in {"next_question", "previous_question", "current_question"}) =>
              engine'.state.answers = engine.state.answers
       /\ (ret'.call = "finish" /\ engine.state.tag = "InProgress") =>
              /\ ret'.result[1] = "Ok"
              /\ ScoreExpected(engine, ret'.result[2])
              /\ engine'.state.score = Some(ret'.result[2])]_vars

\* C18 witness: finish() gave half of the points, one question of three
\* correct, which passes a quiz that asks for half.
C18_Witness ==
    /\ ret.call = "finish"
    /\ ret.result[1] = "Ok"
    /\ engine.quiz.id = "mixed"
    /\ ret.result[2].points_earned = 5
    /\ ret.result[2].points_possible = 10
    /\ ret.result[2].correct_count = 1
    /\ ret.result[2].passed

Answered(e) == { k \in 1..Len(e.state.answers) : e.state.answers[k] # None }

\* progress() is the share of the questions that have an answer.
ProgressByState(e) ==
    CASE e.state.tag = "NotStarted" -> progress(e) = I(0)
      [] e.state.tag = "InProgress" ->
             /\ progress(e).d # 0
             /\ progress(e).n * Len(e.quiz.questions) = progress(e).d * Cardinality(Answered(e))
      [] e.state.tag = "Completed" -> progress(e) = I(1)

\* C19: progress() is 0 in NotStarted, the number of questions with an
\* answer over the number of questions in InProgress, 1 in Completed; no
\* call but a start() that begins an attempt lowers it; an answer to a question
\* that has one keeps it.
C19_Progress ==
    /\ []ProgressByState(engine)
    /\ [][/\ ~(ret'.call = "start" /\ ret'.result[1] = "Ok") =>
                 RLe(progress(engine), progress(engine'))
          /\ (ret'.call = "submit_answer" /\ ret'.result[1] = "Ok" /\ ~Unanswered(engine)) =>
                 progress(engine') = progress(engine)]_vars

\* C19 witness: the first question of the sample quiz was answered again
\* after the second one had been answered; progress is 1 with the quiz still
\* in progress.
C19_Witness ==
    /\ ret.call = "submit_answer"
    /\ ret.result[1] = "Ok"
    /\ engine.quiz.id = "sample"
    /\ engine.state.tag = "InProgress"
    /\ engine.state.current_question = 0
    /\ Answered(engine) = {1, 2}
    /\ progress(engine) = I(1)

\* ------------------------------------------------ claims on the application
QuizEvents == {"SubmitAnswer", "NextQuestion", "PreviousQuestion", "FinishQuiz"}

\* What the engine method of a quiz event leaves and returns.
EngineOutcome(e, ev) ==
    CASE ev.kind = "SubmitAnswer" -> submit_answer(e, ev.arg)
      [] ev.kind = "NextQuestion" -> next_question(e)
      [] ev.kind = "PreviousQuestion" -> previous_question(e)
      [] ev.kind = "FinishQuiz" -> finish(e)

\* C20: handle_event for SubmitAnswer, NextQuestion, PreviousQuestion or
\* FinishQuiz returns Err(InvalidState) and keeps the whole AppState when no
\* quiz is active; with an active quiz the engine is left as its method
\* leaves it, and an error of the engine is returned as Err(QuizError) with
\* current_view kept.
C20_QuizEvents ==
    [][(ret'.call = "handle_event" /\ ret'.args[1].kind \in QuizEvents) =>
           IF app.active_quiz = None
           THEN ret'.result = Err(<<"InvalidState">>) /\ app' = app
           ELSE LET r == EngineOutcome(app.active_quiz[1].engine, ret'.args[1])
                IN  /\ app'.active_quiz # None
                    /\ app'.active_quiz[1].engine = r.engine
                    /\ r.result[1] = "Ok" => ret'.result = Ok(<<>>)
                    /\ r.result[1] = "Err" =>
                           /\ ret'.result[1] = "Err"
                           /\ ret'.result[2][1] = "QuizError"
                           /\ app'.current_view = app.current_view]_vars

\* C20 witness: FinishQuiz was refused by the engine of a quiz already
\* completed, the learner being on the profile view.
C20_Witness ==
    /\ ret.call = "handle_event"
    /\ ret.args[1].kind = "FinishQuiz"
    /\ ret.result = Err(<<"QuizError", "Invalid state for this operation">>)
    /\ app.active_quiz # None
    /\ app.active_quiz[1].engine.state.tag = "Completed"
    /\ app.current_view = "Profile"

\* -------------------------------------------- claims on the simulation
\* The transitions a trigger selects in instance inst, by their positions.
Selected(inst, trigger) ==
    { k \in 1..Len(inst.simulation.transitions) :
          /\ trigger_matches(inst.simulation.transitions[k].trigger, trigger)
          /\ condition_satisfied(inst, inst.simulation.transitions[k].condition) }

\* The actions of the selected transitions with position k or more, in
\* declaration order.
RECURSIVE ActionsFrom(_, _, _)
ActionsFrom(inst, chosen, k) ==
    IF k > Len(inst.simulation.transitions) THEN <<>>
    ELSE (IF k \in chosen THEN inst.simulation.transitions[k].actions ELSE <<>>)
             \o ActionsFrom(inst, chosen, k + 1)

\* The instance after the first n of the actions were executed, one by one.
RECURSIVE After(_, _, _)
After(inst, actions, n) ==
    IF n = 0 THEN inst ELSE execute_action(After(inst, actions, n - 1), actions[n])

\* C21: process_trigger selects the transitions whose trigger matches the
\* received one and whose condition holds in the state before the call,
\* executes their actions in declaration order and returns them; when none is
\* selected it returns no action and keeps the state and step_count.
C21_ProcessTrigger ==
    [][ret'.call = "process_trigger" =>
           LET chosen == Selected(instance, ret'.args[1])
               expected == ActionsFrom(instance, chosen, 1)
           IN  /\ ret'.result = expected
               /\ instance' = After(instance, expected, Len(expected))
               /\ chosen = {} =>
                      /\ ret'.result = <<>>
                      /\ instance'.current_state = instance.current_state
                      /\ instance'.step_count = instance.step_count]_vars

\* C21 witness: a click on the counter at count 1 ran the first two
\* transitions, in that order (count is 2, the ball was moved, one step was
\* counted for the click), and not the third, whose condition holds only
\* after the second.
C21_Witness ==
    /\ ret.call = "process_trigger"
    /\ ret.args[1] = UserClick("btn")
    /\ Len(ret.result) = 5
    /\ ret.result[1] = SetVariable("count", Value_Int(1))
    /\ ret.result[5] = ShowMessage("one")
    /\ get_variable(instance.current_state, "count") = Some(Value_Int(2))
    /\ instance.current_state.entities[1].position = Position(5, 5)

\* ------------------------------------------- claims on the order of a step
Stepped == last # NoStep

\* The positions in the log of the pairs that body k belongs to.
PairsOf(k) == { n \in 1..Len(last.log) : last.log[n].i = k \/ last.log[n].j = k }

\* Body k as pair n found it, and as pair n left it.
FoundBy(n, k) == IF last.log[n].i = k THEN last.log[n].a ELSE last.log[n].b

LeftBy(n, k) == IF last.log[n].i = k THEN last.log[n].a2 ELSE last.log[n].b2

\* Body k past a bound of the world.
PastBounds(body) ==
    /\ bounds # <<>>
    /\ \/ RLt(RSub(body.position.x, body.radius), bounds[1])
       \/ RGt(RAdd(body.position.x, body.radius), bounds[3])
       \/ RLt(RSub(body.position.y, body.radius), bounds[2])
       \/ RGt(RAdd(body.position.y, body.radius), bounds[4])

\* C22: a step integrates every body, then handles the bounds of every
\* integrated body (when bounds are set), then runs the pair loop: the first
\* pair of a body finds it as the boundary phase left it, and the body ends
\* the step as its last pair left it, no bound check coming after.
C22_PhaseOrder ==
    Stepped =>
        \A k \in 1..Len(last.pre) :
            /\ last.integrated[k] = integrate(last.pre[k], gravity, dt)
            /\ last.bounded[k] =
                   IF bounds = <<>> THEN last.integrated[k]
                   ELSE bottom_bound(top_bound(right_bound(left_bound(
                            last.integrated[k], bounds[1]), bounds[3]), bounds[2]), bounds[4])
            /\ IF PairsOf(k) = {} THEN last.post[k] = last.bounded[k]
               ELSE LET first == CHOOSE n \in PairsOf(k) : \A m \in PairsOf(k) : n <= m
                        final == CHOOSE n \in PairsOf(k) : \A m \in PairsOf(k) : m <= n
                    IN  /\ FoundBy(first, k) = last.bounded[k]
                        /\ last.post[k] = LeftBy(final, k)

\* C22 witness: a body clamped by the boundary phase to within the bounds was
\* then moved by the positional correction of a pair and ends the step past
\* a bound.
C22_Witness ==
    /\ Stepped
    /\ \E k \in 1..Len(last.pre) :
           /\ last.bounded[k].position # last.integrated[k].position
           /\ ~PastBounds(last.bounded[k])
           /\ last.post[k].position # last.bounded[k].position
           /\ PastBounds(last.post[k])

\* ------------------------------------------- claims on the order of pairs
\* Pair (i, j) comes before pair (k, l) in the nested loop.
PairBefore(p, q) == p.i < q.i \/ (p.i = q.i /\ p.j < q.j)

\* The pair before pair n that body k belongs to, or 0.
Earlier(n, k) ==
    LET before == { m \in PairsOf(k) : m < n }
    IN  IF before = {} THEN 0 ELSE CHOOSE m \in before : \A o \in before : o <= m

\* The bodies of the list bs in the order perm, and the result of a step on
\* them put back in the order of bs.
Reordered(bs, perm) == [k \in 1..Len(bs) |-> bs[perm[k]]]

StepOf(bs) == step_phases(bs, gravity, dt, bounds).post

Orders(n) == { f \in [1..n -> 1..n] : \A a, b \in 1..n : f[a] = f[b] => a = b }

\* C23: within one step every pair of distinct bodies is checked exactly
\* once, in ascending (i, j) order with i < j, and each check and resolution
\* finds a body as the earlier pair of the same step left it (as the boundary
\* phase left it when there is none).
C23_PairOrder ==
    Stepped =>
        LET n == Len(last.pre)
        IN  /\ \A i, j \in 1..n :
                   i < j => Cardinality({ m \in 1..Len(last.log) :
                                             last.log[m].i = i /\ last.log[m].j = j }) = 1
            /\ \A m \in 1..Len(last.log) :
                   /\ 1 <= last.log[m].i
                   /\ last.log[m].i < last.log[m].j
                   /\ last.log[m].j <= n
                   /\ m > 1 => PairBefore(last.log[m - 1], last.log[m])
                   /\ last.log[m].colliding <=>
                          RLt(DistSq(last.log[m].a, last.log[m].b),
                              RMul(RadiusSum(last.log[m].a, last.log[m].b),
                                   RadiusSum(last.log[m].a, last.log[m].b)))
                   /\ \A k \in {last.log[m].i, last.log[m].j} :
                          FoundBy(m, k) = IF Earlier(m, k) = 0 THEN last.bounded[k]
                                          ELSE LeftBy(Earlier(m, k), k)

\* C23 witness: three bodies of which one collided with both others in one
\* step, the second of these pairs finding it changed by the first; the same
\* three bodies added in another order leave the step differently.
C23_Witness ==
    /\ Stepped
    /\ Len(last.pre) = 3
    /\ \E m \in 2..Len(last.log), k \in 1..3 :
           /\ last.log[m].colliding
           /\ Earlier(m, k) # 0
           /\ last.log[Earlier(m, k)].colliding
           /\ FoundBy(m, k) # last.bounded[k]
    /\ \E perm \in Orders(3) :
           StepOf(Reordered(last.pre, perm)) # Reordered(last.post, perm)

\* ------------------------------------------------ claims on the bounds
PastX(body) ==
    \/ RLt(RSub(body.position.x, body.radius), bounds[1])
    \/ RGt(RAdd(body.position.x, body.radius), bounds[3])

PastY(body) ==
    \/ RLt(RSub(body.position.y, body.radius), bounds[2])
    \/ RGt(RAdd(body.position.y, body.radius), bounds[4])

ClampedX(body) ==
    \/ body.position.x = RAdd(bounds[1], body.radius)
    \/ body.position.x = RSub(bounds[3], body.radius)

ClampedY(body) ==
    \/ body.position.y = RAdd(bounds[2], body.radius)
    \/ body.position.y = RSub(bounds[4], body.radius)

SameX(b, c) == c.position.x = b.position.x /\ c.velocity.x = b.velocity.x

SameY(b, c) == c.position.y = b.position.y /\ c.velocity.y = b.velocity.y

\* The x checks keep the y components and the y checks the x components,
\* on the body each check receives in the boundary phase.
AxesApart(b) ==
    LET s1 == left_bound(b, bounds[1])
        s2 == right_bound(s1, bounds[3])
        s3 == top_bound(s2, bounds[2])
        s4 == bottom_bound(s3, bounds[4])
    IN  SameY(b, s1) /\ SameY(s1, s2) /\ SameX(s2, s3) /\ SameX(s3, s4)

\* Body c is body b clamped and reflected on both axes.
CornerHandled(b, c) ==
    /\ ClampedX(c)
    /\ ClampedY(c)
    /\ c.velocity.x = RMul(RNeg(b.velocity.x), b.restitution)
    /\ c.velocity.y = RMul(RNeg(b.velocity.y), b.restitution)

\* C24 (as claimed): a body past an x bound and a y bound after integration
\* leaves the boundary phase of that step clamped and with its velocity
\* reflected on both axes, and a check on one axis changes no component of
\* the other axis.
C24_BoundsIndependent ==
    (Stepped /\ bounds # <<>>) =>
        \A k \in 1..Len(last.pre) :
            /\ (PastX(last.integrated[k]) /\ PastY(last.integrated[k])) =>
                   CornerHandled(last.integrated[k], last.bounded[k])
            /\ AxesApart(last.integrated[k])

\* C24 (amended): the same, for a body that fits between the bounds.
C24_BoundsIndependentFitting ==
    (Stepped /\ bounds # <<>>) =>
        \A k \in 1..Len(last.pre) :
            /\ (PastX(last.integrated[k]) /\ PastY(last.integrated[k])
                    /\ Fits(last.integrated[k])) =>
                   CornerHandled(last.integrated[k], last.bounded[k])
            /\ AxesApart(last.integrated[k])

\* C24 witness: a body that fits between the bounds and moves on both axes
\* was past the left and the top bound after integration.
C24_Witness ==
    /\ Stepped
    /\ bounds # <<>>
    /\ \E k \in 1..Len(last.pre) :
           /\ Fits(last.integrated[k])
           /\ PastX(last.integrated[k])
           /\ PastY(last.integrated[k])
           /\ RLt(last.integrated[k].velocity.x, I(0))
           /\ RGt(last.integrated[k].velocity.y, I(0))
           /\ RGt(last.bounded[k].velocity.x, I(0))
           /\ RLt(last.bounded[k].velocity.y, I(0))

\* ------------------------------------------------ claims on the energy
\* C25 (as claimed): the handling of a colliding pair never leaves the two
\* bodies with more kinetic energy in total than it found them with.
C25_EnergyNotIncreased ==
    \A p \in Colliding : RLe(PairEnergy(p.a2, p.b2), PairEnergy(p.a, p.b))

\* --------------------------------------------- claims on the containment
\* Every body of the world fits between the bounds.
AllFit == \A k \in 1..Len(last.post) : Fits(last.post[k])

\* The circle of the body lies inside the bounds.
Inside(body) ==
    /\ RLe(RAdd(bounds[1], body.radius), body.position.x)
    /\ RLe(body.position.x, RSub(bounds[3], body.radius))
    /\ RLe(RAdd(bounds[2], body.radius), body.position.y)
    /\ RLe(body.position.y, RSub(bounds[4], body.radius))

\* C26 (as claimed): in bounds at least as wide and as tall as every body's
\* diameter, every body's circle lies inside the bounds at the end of every
\* step.
C26_Contained ==
    (Stepped /\ bounds # <<>> /\ AllFit) =>
        \A k \in 1..Len(last.post) : Inside(last.post[k])

\* C26 (amended): the same for every body that the positional correction of
\* no pair moved in that step.
C26_ContainedUnlessPushed ==
    (Stepped /\ bounds # <<>> /\ AllFit) =>
        \A k \in 1..Len(last.post) :
            last.post[k].position = last.bounded[k].position => Inside(last.post[k])

\* C26 witness: in a world of two or more bodies that fit, a body past a
\* bound after integration ends the step inside the bounds, where the boundary
\* phase put it, while a colliding pair of that step was pushed apart.
C26_Witness ==
    /\ Stepped
    /\ bounds # <<>>
    /\ AllFit
    /\ Len(last.post) >= 2
    /\ \E k \in 1..Len(last.post) :
           /\ PastBounds(last.integrated[k])
           /\ last.post[k].position = last.bounded[k].position
           /\ Inside(last.post[k])
    /\ \E p \in Colliding : ~PositionsKept(p)

\* ------------------------------------------- claims on the reflection
\* The boundary phase moved body b to body c's place on the x (y) axis, and
\* c is tangent to the bound at position `at`.
ClampedToX(b, c, at) == c.position.x # b.position.x /\ c.position.x = at

ClampedToY(b, c, at) == c.position.y # b.position.y /\ c.position.y = at

\* Body c has no velocity component pointing out through a bound the
\* boundary phase clamped it to.
NotLeaving(b, c) ==
    /\ ClampedToX(b, c, RAdd(bounds[1], c.radius)) => RLe(I(0), c.velocity.x)
    /\ ClampedToX(b, c, RSub(bounds[3], c.radius)) => RLe(c.velocity.x, I(0))
    /\ ClampedToY(b, c, RAdd(bounds[2], c.radius)) => RLe(I(0), c.velocity.y)
    /\ ClampedToY(b, c, RSub(bounds[4], c.radius)) => RLe(c.velocity.y, I(0))

\* C27 (as claimed): after the boundary phase a body clamped to a bound has
\* no velocity component pointing out through that bound, wherever it came
\* from and whichever way it moved.
C27_NoOutwardVelocity ==
    (Stepped /\ bounds # <<>>) =>
        \A k \in 1..Len(last.pre) : NotLeaving(last.integrated[k], last.bounded[k])

\* ---------------------------------------------------- claims on restarting
\* Attempts remain and the quiz has questions.
CanStart(e) == can_attempt(e) /\ Len(e.quiz.questions) > 0

\* The engine at question 0 with no answer and no feedback.
Fresh(e) ==
    e.state = InProgress(0, [k \in 1..Len(e.quiz.questions) |-> None],
                         [k \in 1..Len(e.quiz.questions) |-> None])

\* C28: start() succeeds in NotStarted, InProgress and Completed alike whenever
\* attempts remain and the quiz has questions; each success adds exactly one
\* to attempt_count and leaves the engine at question 0 with all answers and
\* feedback cleared, so that a start() during an attempt discards its answers
\* and uses an attempt; attempt_count is always the number of start() calls
\* that succeeded, and finish() records in Completed.attempt_number the
\* attempt_count of that time.
C28_Restart ==
    /\ [](engine.attempt_count = Len(starts))
    /\ [][/\ ret'.call = "start" =>
                 /\ CanStart(engine) => ret'.result[1] = "Ok"
                 /\ ret'.result[1] = "Ok" =>
                        /\ engine'.attempt_count = engine.attempt_count + 1
                        /\ Fresh(engine')
                 /\ ret'.result[1] = "Err" => engine' = engine
          /\ ret'.call # "start" => engine'.attempt_count = engine.attempt_count
          /\ (ret'.call = "finish" /\ ret'.result[1] = "Ok") =>
                 /\ engine'.state.tag = "Completed"
                 /\ engine'.state.attempt_number = engine.attempt_count]_vars

\* C28 witness: the second start() of the quiz limited to two attempts
\* succeeded during the first attempt, which held answers, and left none.
C28_Witness ==
    /\ ret.call = "start"
    /\ ret.result[1] = "Ok"
    /\ engine.quiz.max_attempts = Some(2)
    /\ engine.attempt_count = 2
    /\ starts[2].state = "InProgress"
    /\ starts[2].answered > 0
    /\ Fresh(engine)
====
